---------------------------- MODULE Spec2Model ----------------------------
(***************************************************************************)
(* State-machine model of the quant-trading-system back end:               *)
(*   - the bar producer  (backend/app/nodes/kline_node.py)                 *)
(*   - the task manager  (backend/app/core/task_manager.py)                *)
(*   - the strategy runtime, trading engine and position manager           *)
(*     (backend/app/nodes/strategies/base_strategy.py,                     *)
(*      backend/app/core/trading_engine.py, position_manager.py)           *)
(* Every coroutine is modelled by a program counter; one action is the     *)
(* code a coroutine runs between two awaits that can suspend it.           *)
(***************************************************************************)
EXTENDS Integers, Sequences, FiniteSets, TLC

None == "None"
\* an absent timestamp (Python None); real timestamps are positive
NoTs == 0

(***************************************************************************)
(* Generic helpers                                                         *)
(***************************************************************************)
RECURSIVE ReverseSeq(_)
ReverseSeq(s) == IF s = <<>> THEN <<>> ELSE ReverseSeq(Tail(s)) \o <<Head(s)>>

RECURSIVE FilterSeq(_, _)
\* [x for x in s if x.ts >= lo]
FilterSeq(s, lo) ==
    IF s = <<>> THEN <<>>
    ELSE IF Head(s).ts >= lo THEN <<Head(s)>> \o FilterSeq(Tail(s), lo)
         ELSE FilterSeq(Tail(s), lo)

IdsIncreasing(s) == \A i, j \in 1..Len(s) : i < j => s[i].id < s[j].id

(***************************************************************************)
(*                        BAR PRODUCER (KlineNode)                         *)
(***************************************************************************)
\* Bounds of the producer model
MaxTime == 2
MaxFetch == 1
MaxBars == 2
\* flushes that may exhaust their retries in one run
MaxFlushFailures == 1
\* buffer_size of the model (the default of the constructor is 100)
BufferSize == 2

Keys == {"k1", "k2"}
KeyOrder == <<"k1", "k2">>

\* max_retries in _flush_buffer
max_retries == 3

\* Database.get_last_kline_time(self, symbol, timeframe) takes two arguments;
\* KlineNode calls it with (symbol, timeframe, self.market_type).
GetLastKlineTimeParams == 2
GetLastKlineTimeArgs == 3
\* The call raises TypeError before any query runs.
GetLastKlineTimeRaises == GetLastKlineTimeArgs # GetLastKlineTimeParams

\* What exchange.fetch_klines may return: any list of at most MaxFetch bars
FetchResults == UNION {[1..n -> 1..MaxTime] : n \in 0..MaxFetch}

VARIABLES
    now,            \* int(time.time())
    phase,          \* "init" (start() inside initialize_cursors) | "running"
    initLeft,       \* keys initialize_cursors has still to visit
    memory_cursor,  \* self.memory_cursor, NoTs when the key is absent
    write_buffer,   \* self.write_buffer
    buffer_lock,    \* holder of self.buffer_lock: "free" | "periodic" | a key
    stats,          \* self.stats
    pcFetch,        \* position of _fetch_incremental(key) in the current tick
    fetchLocal,     \* its locals t3 and new_klines
    flushJob,       \* the running _flush_buffer(key), if any
    pcFlusher,      \* position of _periodic_flush
    dbKlines,       \* ids of the bars committed to the klines table
    lastTsQueries   \* get_last_kline_time calls made by _fetch_incremental

producerVars == <<now, phase, initLeft, memory_cursor, write_buffer,
                  buffer_lock, stats, pcFetch, fetchLocal, flushJob,
                  pcFlusher, dbKlines, lastTsQueries>>

VARIABLES
    mode,             \* TradingEngine.mode, "none" before an engine exists
    streamPos,        \* place of the last item the data stream has yielded
    state,            \* BaseStrategy.state: symbol -> kline, indicator, prev
    positions,        \* BaseStrategy.positions: symbol -> position tracking
    evaluated,        \* what the last process() call handed to the pipeline
    pm_params,        \* PositionManager risk parameters
    pm_positions,     \* PositionManager.positions
    current_balance,  \* PositionManager.current_balance
    initial_balance   \* PositionManager.initial_balance

engineVars == <<mode, streamPos, state, positions, evaluated, pm_params,
                pm_positions, current_balance, initial_balance>>

VARIABLES
    manager,                \* the TaskManager instance, "none" before it exists
    semaphore,              \* free slots of TaskManager.semaphore
    active_tasks,           \* TaskManager.active_tasks
    tasks,                  \* TaskManager.tasks: task id -> task record
    websocket_connections,  \* task id -> list of registered websockets
    pcRun,                  \* position of each _run_task coroutine
    fnCalls,                \* update_progress calls the task function made
    fnOutcome,              \* how the task function ended
    notifier,               \* the _notify_websockets coroutines of a task
    handler,                \* position of each websocket endpoint handler
    broken,                 \* websockets whose send_json raises
    lastRecv,               \* progress of the last message a websocket got
    got100,                 \* the websocket has got a message with 100
    regEarly                \* the websocket registered before completion

taskVars == <<manager, semaphore, active_tasks, tasks, websocket_connections,
              pcRun, fnCalls, fnOutcome, notifier, handler, broken, lastRecv,
              got100, regEarly>>

VARIABLES
    timer,    \* the timer of the TTLCache (time.monotonic), in hours
    expires   \* task id -> the time at which the cache entry expires

ttlVars == <<timer, expires>>

VARIABLES
    bus       \* key -> timestamps of the bars published on the key's topic

busVars == <<bus>>

VARIABLES
    runtime,        \* how the strategy runs: "none", "live" or "backtest"
    input_topics,   \* the subjects the started strategy has subscribed to
    rt_state,       \* BaseStrategy.state of the running strategy
    rt_positions,   \* BaseStrategy.positions of the running strategy
    last,           \* what the handlers did in the last step of the bus
    last_pub,       \* the last bar the producer published and who got it
    error_logged    \* a handler has logged an exception

runtimeVars == <<runtime, input_topics, rt_state, rt_positions, last,
                 last_pub, error_logged>>

VARIABLES
    pcStream,       \* where get_data_stream of the back-test source stands
    kline_data,     \* BacktestDataSource.kline_data: symbol -> loaded bars
    indicator_data, \* BacktestDataSource.indicator_data
    all_data,       \* the merged list of get_data_stream
    yielded         \* the timestamps of the items yielded so far

streamVars == <<pcStream, kline_data, indicator_data, all_data, yielded>>

VARIABLES
    rp_history,   \* the stored history as get_data_stream yields it
    rp_request,   \* the parameters both back-test requests carry
    rp_strategy,  \* strategy instance -> BaseStrategy.state and .positions
    rp_engine     \* run -> the engine and the position manager of the run

replayVars == <<rp_history, rp_request, rp_strategy, rp_engine>>

VARIABLES
    sz_params,    \* the risk parameters of a PositionManager
    sz_book,      \* its positions: symbol -> position
    sz_balance,   \* its current_balance
    sz_orders,    \* requests it has received, -1 before it exists
    sz_last       \* the last calculate_order_size call and what it returned

sizingVars == <<sz_params, sz_book, sz_balance, sz_orders, sz_last>>

VARIABLES
    cl_now,       \* int(time.time()) of the task manager
    cl_tasks,     \* TaskManager.tasks: id -> status and completed_at
    cl_last       \* the last cleanup_old_tasks call

cleanupVars == <<cl_now, cl_tasks, cl_last>>

VARIABLES
    tr_clock,     \* time.time() of the tracker
    tracker,      \* the ProgressTracker of a run
    tr_calls,     \* update() calls made so far
    tr_reports    \* what the callback has been given

trackerVars == <<tr_clock, tracker, tr_calls, tr_reports>>

VARIABLES
    calculators,  \* IndicatorNode.calculators: key -> calculator set
    pcSub,        \* subscription -> where its process() call stands
    seen,         \* subscription -> bars it has received
    store_reads   \* get_recent_klines calls the node has made

calcVars == <<calculators, pcSub, seen, store_reads>>

VARIABLES
    check         \* the check_and_repair_all call of the integrity service

integrityVars == <<check>>

VARIABLES
    db_klines,    \* the rows of the klines table
    db_latest,    \* key -> the bar most recently handed to bulk_insert_klines
    db_calls      \* bulk_insert_klines calls made so far

storeVars == <<db_klines, db_latest, db_calls>>

VARIABLES
    ma,           \* a MACalculator: period, values, sum
    ma_prices,    \* the prices update() has been given, in order
    ma_results    \* what update() has returned, in order

maVars == <<ma, ma_prices, ma_results>>

VARIABLES
    bk_params,    \* risk parameters of the engine's position manager
    bk_initial,   \* PositionManager.initial_balance
    bk_balance,   \* PositionManager.current_balance
    bk_book,      \* PositionManager.positions
    bk_flags,     \* BaseStrategy.positions[symbol]["has_position"]
    bk_trades,    \* the pnl of TradingEngine.trades, in order
    bk_signals    \* signals the strategy has dispatched

bookVars == <<bk_params, bk_initial, bk_balance, bk_book, bk_flags,
              bk_trades, bk_signals>>

VARIABLES
    ci_now,       \* int(time.time()) while the node starts
    ci_store,     \* key -> timestamps of the bars the Store holds for it
    ci_left,      \* keys initialize_cursors has still to visit
    ci_cursor     \* self.memory_cursor while the node starts

cursorVars == <<ci_now, ci_store, ci_left, ci_cursor>>

VARIABLES
    ap_stored,    \* timestamps of the bars the Store holds for the series
    ap_published, \* timestamp of the bar the producer published last
    ap_set        \* the calculator set of the series and the bars applied

appliedVars == <<ap_stored, ap_published, ap_set>>

VARIABLES
    lv_pc,          \* where LiveDataSource.get_data_stream stands
    lv_symbols,     \* the symbols it was called with
    lv_subscribed,  \* the subjects its pubsub objects are subscribed to
    lv_sent,        \* the messages published since the start, in order
    lv_queue,       \* LiveDataSource.data_queue
    lv_yielded      \* the items the stream has yielded to its consumer

liveVars == <<lv_pc, lv_symbols, lv_subscribed, lv_sent, lv_queue,
              lv_yielded>>

\* The variables of the pipelines and those of the services beside them
coreVars == <<producerVars, engineVars, taskVars, ttlVars, busVars,
              runtimeVars, streamVars>>
extraVars == <<replayVars, sizingVars, cleanupVars, trackerVars, calcVars,
               integrityVars, storeVars, maVars, bookVars, cursorVars,
               appliedVars, liveVars>>

\* What the steps of one subsystem leave alone
otherThanProducer == <<engineVars, taskVars, ttlVars, busVars, runtimeVars,
                       streamVars, extraVars>>
otherThanEngine == <<producerVars, taskVars, ttlVars, busVars, runtimeVars,
                     streamVars, extraVars>>
otherThanTasks == <<producerVars, engineVars, ttlVars, busVars, runtimeVars,
                    streamVars, extraVars>>
otherThanRuntime == <<producerVars, engineVars, taskVars, ttlVars, busVars,
                      streamVars, extraVars>>
otherThanStream == <<producerVars, engineVars, taskVars, ttlVars, busVars,
                     runtimeVars, extraVars>>
otherThanReplay == <<coreVars, sizingVars, cleanupVars, trackerVars, calcVars,
                     integrityVars, storeVars, maVars, bookVars, cursorVars,
                     appliedVars, liveVars>>
otherThanSizing == <<coreVars, replayVars, cleanupVars, trackerVars, calcVars,
                     integrityVars, storeVars, maVars, bookVars, cursorVars,
                     appliedVars, liveVars>>
otherThanCleanup == <<coreVars, replayVars, sizingVars, trackerVars, calcVars,
                      integrityVars, storeVars, maVars, bookVars, cursorVars,
                      appliedVars, liveVars>>
otherThanTracker == <<coreVars, replayVars, sizingVars, cleanupVars, calcVars,
                      integrityVars, storeVars, maVars, bookVars, cursorVars,
                      appliedVars, liveVars>>
otherThanCalc == <<coreVars, replayVars, sizingVars, cleanupVars, trackerVars,
                   integrityVars, storeVars, maVars, bookVars, cursorVars,
                   appliedVars, liveVars>>
otherThanIntegrity == <<coreVars, replayVars, sizingVars, cleanupVars,
                        trackerVars, calcVars, storeVars, maVars, bookVars,
                        cursorVars, appliedVars, liveVars>>
otherThanStore == <<coreVars, replayVars, sizingVars, cleanupVars,
                    trackerVars, calcVars, integrityVars, maVars, bookVars,
                    cursorVars, appliedVars, liveVars>>
otherThanMA == <<coreVars, replayVars, sizingVars, cleanupVars, trackerVars,
                 calcVars, integrityVars, storeVars, bookVars, cursorVars,
                 appliedVars, liveVars>>
otherThanBook == <<coreVars, replayVars, sizingVars, cleanupVars, trackerVars,
                   calcVars, integrityVars, storeVars, maVars, cursorVars,
                   appliedVars, liveVars>>
otherThanCursor == <<coreVars, replayVars, sizingVars, cleanupVars,
                     trackerVars, calcVars, integrityVars, storeVars, maVars,
                     bookVars, appliedVars, liveVars>>
otherThanApplied == <<coreVars, replayVars, sizingVars, cleanupVars,
                      trackerVars, calcVars, integrityVars, storeVars, maVars,
                      bookVars, cursorVars, liveVars>>
otherThanLive == <<coreVars, replayVars, sizingVars, cleanupVars, trackerVars,
                   calcVars, integrityVars, storeVars, maVars, bookVars,
                   cursorVars, appliedVars>>

IdleJob == [st |-> "idle", batch |-> <<>>, attempt |-> 0, owner |-> None]
NoLocal == [t3 |-> 0, new_klines |-> <<>>]

ProducerInit ==
    /\ now = 1
    /\ phase = "init"
    /\ initLeft = KeyOrder
    /\ memory_cursor = [k \in Keys |-> NoTs]
    /\ write_buffer = [k \in Keys |-> <<>>]
    /\ buffer_lock = "free"
    /\ stats = [total_fetched |-> 0, total_published |-> 0,
                total_buffered |-> 0, total_flushed |-> 0,
                flush_failures |-> 0]
    /\ pcFetch = [k \in Keys |-> "idle"]
    /\ fetchLocal = [k \in Keys |-> NoLocal]
    /\ flushJob = [k \in Keys |-> IdleJob]
    /\ pcFlusher = "sleep"
    /\ dbKlines = {}
    /\ lastTsQueries = 0

\* The wall clock advances.  Only initialize_cursors uses the time it reads
\* (t4 of _fetch_incremental is never used), so the clock is followed until
\* the cursors are initialised.
AdvanceClock ==
    /\ phase = "init"
    /\ now < MaxTime
    /\ now' = now + 1
    /\ UNCHANGED <<phase, initLeft, memory_cursor, write_buffer, buffer_lock,
                   stats, pcFetch, fetchLocal, flushJob, pcFlusher, dbKlines,
                   lastTsQueries>>
    /\ UNCHANGED otherThanProducer

\* Value the except branch of initialize_cursors stores in the cursor
ExceptCursorMissing(t) == NoTs
ExceptCursor(t) == t

\* initialize_cursors, one iteration of the loop over the keys.  The first
\* statement of the try body, db.get_last_kline_time(symbol, timeframe,
\* market_type), raises TypeError, so the except branch sets the cursor.
InitializeCursor ==
    /\ phase = "init"
    /\ initLeft # <<>>
    /\ GetLastKlineTimeRaises
    /\ memory_cursor' = [memory_cursor EXCEPT ![Head(initLeft)] = ExceptCursor(now)]
    /\ initLeft' = Tail(initLeft)
    /\ UNCHANGED <<now, phase, write_buffer, buffer_lock, stats, pcFetch,
                   fetchLocal, flushJob, pcFlusher, dbKlines, lastTsQueries>>
    /\ UNCHANGED otherThanProducer

\* start(): initialize_cursors has returned, produce() and _periodic_flush()
\* are created
StartLoops ==
    /\ phase = "init"
    /\ initLeft = <<>>
    /\ phase' = "running"
    /\ UNCHANGED <<now, initLeft, memory_cursor, write_buffer, buffer_lock,
                   stats, pcFetch, fetchLocal, flushJob, pcFlusher, dbKlines,
                   lastTsQueries>>
    /\ UNCHANGED otherThanProducer

\* _fetch_incremental up to the await of exchange.fetch_klines: the cursor is
\* read from memory; if it is missing, the fallback call of
\* db.get_last_kline_time raises TypeError, which ends the task
FetchBegins(k) == memory_cursor[k] # NoTs

\* produce(): one iteration starts; gather starts a _fetch_incremental per
\* key, each runs up to its first await
TickStart ==
    /\ phase = "running"
    /\ \A k \in Keys : pcFetch[k] = "idle"
    /\ pcFetch' = [k \in Keys |-> IF FetchBegins(k) THEN "fetching" ELSE "idle"]
    /\ fetchLocal' = [k \in Keys |->
                        IF FetchBegins(k)
                        THEN [t3 |-> memory_cursor[k], new_klines |-> <<>>]
                        ELSE NoLocal]
    /\ lastTsQueries' = lastTsQueries
                          + Cardinality({k \in Keys : ~FetchBegins(k)})
    /\ UNCHANGED <<now, phase, initLeft, memory_cursor, write_buffer,
                   buffer_lock, stats, flushJob, pcFlusher, dbKlines>>
    /\ UNCHANGED otherThanProducer

\* klines as returned by the exchange
MakeBars(tss) == [i \in 1..Len(tss) |-> [ts |-> tss[i], id |-> 0]]

\* new_klines = [k for k in klines if k.timestamp >= t3]
NewKlinesUnfiltered(klines, t3) == klines
NewKlines(klines, t3) == FilterSeq(klines, t3)

\* exchange.fetch_klines raises: caught, the task ends
FetchFails(k) ==
    /\ pcFetch[k] = "fetching"
    /\ pcFetch' = [pcFetch EXCEPT ![k] = "idle"]
    /\ fetchLocal' = [fetchLocal EXCEPT ![k] = NoLocal]
    /\ UNCHANGED <<now, phase, initLeft, memory_cursor, write_buffer,
                   buffer_lock, stats, flushJob, pcFlusher, dbKlines,
                   lastTsQueries>>
    /\ UNCHANGED otherThanProducer

\* self.memory_cursor[key] = new_klines[-1].timestamp
CursorAfterFetch(new) == new[Len(new)].ts

\* _add_to_buffer once the lock is taken: the bars are appended; a full
\* buffer is flushed at once, with the lock held; otherwise the lock is
\* released and _fetch_incremental updates the cursor.  st is self.stats on
\* entry.
AddToBufferLocked(k, new, st) ==
    LET buf == write_buffer[k] \o new
    IN  /\ stats' = [st EXCEPT !.total_buffered = @ + Len(new)]
        /\ IF Len(buf) >= BufferSize
           THEN \* _flush_buffer(key): extract and clear
                /\ write_buffer' = [write_buffer EXCEPT ![k] = <<>>]
                /\ flushJob' = [flushJob EXCEPT ![k] =
                      [st |-> "write", batch |-> buf, attempt |-> 0,
                       owner |-> "fetch"]]
                /\ buffer_lock' = k
                /\ pcFetch' = [pcFetch EXCEPT ![k] = "flushing"]
                /\ fetchLocal' = [fetchLocal EXCEPT ![k].new_klines = new]
                /\ UNCHANGED memory_cursor
           ELSE /\ write_buffer' = [write_buffer EXCEPT ![k] = buf]
                /\ memory_cursor' = [memory_cursor EXCEPT ![k] =
                                        CursorAfterFetch(new)]
                /\ pcFetch' = [pcFetch EXCEPT ![k] = "idle"]
                /\ fetchLocal' = [fetchLocal EXCEPT ![k] = NoLocal]
                /\ UNCHANGED <<flushJob, buffer_lock>>

\* The timestamps of a list of bars
TimestampsOf(bars) == [i \in 1..Len(bars) |-> bars[i].ts]

\* What the topic of key k has carried once `bars` are published on it; the
\* log is kept only where it is read
Logged(logged, k, bars) ==
    IF logged THEN [bus EXCEPT ![k] = @ \o TimestampsOf(bars)] ELSE bus

\* exchange.fetch_klines returns; filter; publish every bar (emit); then
\* _add_to_buffer, which goes on without suspending if the lock is free.
\* npub < Len(new) means that emit number npub+1 raised: MessageBus.publish
\* raised in redis.publish (the bar is not sent) or after it, in redis.xadd
\* (the bar has been sent to the subscribers).  The id of a bar is
\* its position in the order of fetching (stats.total_fetched counts them).
FetchReturnOn(k, logged) ==
    /\ pcFetch[k] = "fetching"
    /\ \E tss \in FetchResults :
         LET flt == NewKlines(MakeBars(tss), fetchLocal[k].t3)
             new == [i \in 1..Len(flt) |->
                        [ts |-> flt[i].ts, id |-> stats.total_fetched + i]]
             fetched == [stats EXCEPT !.total_fetched = @ + Len(new)]
             published == [fetched EXCEPT !.total_published = @ + Len(new)]
         IN  /\ stats.total_fetched + Len(new) <= MaxBars
             /\ IF new = <<>>
                THEN /\ pcFetch' = [pcFetch EXCEPT ![k] = "idle"]
                     /\ fetchLocal' = [fetchLocal EXCEPT ![k] = NoLocal]
                     /\ UNCHANGED <<stats, memory_cursor, write_buffer,
                                    buffer_lock, flushJob, bus>>
                ELSE \E npub \in 0..Len(new) :
                       IF npub < Len(new)
                       THEN /\ \E sent \in {npub, npub + 1} :
                                 bus' = Logged(logged, k, SubSeq(new, 1, sent))
                            /\ stats' = fetched
                            /\ pcFetch' = [pcFetch EXCEPT ![k] = "idle"]
                            /\ fetchLocal' = [fetchLocal EXCEPT ![k] = NoLocal]
                            /\ UNCHANGED <<memory_cursor, write_buffer,
                                           buffer_lock, flushJob>>
                       ELSE /\ bus' = Logged(logged, k, new)
                            /\ IF buffer_lock = "free"
                               THEN AddToBufferLocked(k, new, published)
                               ELSE /\ stats' = published
                                    /\ pcFetch' = [pcFetch EXCEPT
                                                     ![k] = "want_lock"]
                                    /\ fetchLocal' = [fetchLocal EXCEPT
                                                        ![k].new_klines = new]
                                    /\ UNCHANGED <<memory_cursor, write_buffer,
                                                   buffer_lock, flushJob>>
    /\ UNCHANGED <<now, phase, initLeft, pcFlusher, dbKlines, lastTsQueries>>
    /\ UNCHANGED <<engineVars, taskVars, ttlVars, runtimeVars, streamVars,
                   extraVars>>

\* _fetch_incremental from the return of exchange.fetch_klines on
FetchReturn(k) == FetchReturnOn(k, FALSE)

\* The same, in the specifications that read what the topic has carried
FetchPublishes(k) == FetchReturnOn(k, TRUE)

\* _add_to_buffer, after waiting for the lock
AddToBuffer(k) ==
    /\ pcFetch[k] = "want_lock"
    /\ buffer_lock = "free"
    /\ AddToBufferLocked(k, fetchLocal[k].new_klines, stats)
    /\ UNCHANGED <<now, phase, initLeft, pcFlusher, dbKlines, lastTsQueries>>
    /\ UNCHANGED otherThanProducer

\* Outcomes of Database.bulk_insert_klines: the commit succeeds; the commit
\* fails, is rolled back and 0 is returned; or the call raises (the session
\* cannot be opened, the rollback fails)
InsertOutcomes == {"committed", "rolled_back", "raised"}

\* await asyncio.sleep(1 * (attempt + 1)), in seconds
BackoffDelay(attempt) == 1 * (attempt + 1)

\* The backoff delays _flush_buffer has slept when attempt number `attempt`
\* (counted from 0) is running
DelaysSlept(attempt) == [i \in 1..attempt |-> BackoffDelay(i - 1)]

\* self.write_buffer[key].extendleft(reversed(klines_to_write))
RequeueNotReversed(buf, batch) == ReverseSeq(batch) \o buf
Requeue(buf, batch) == batch \o buf

\* What happens when the _flush_buffer of key k returns to its caller
FlushReturns(k, jobs) ==
    IF flushJob[k].owner = "fetch"
    THEN \* back in _add_to_buffer and _fetch_incremental: the lock is
         \* released and the cursor is updated
         /\ buffer_lock' = "free"
         /\ memory_cursor' = [memory_cursor EXCEPT ![k] =
                                 CursorAfterFetch(fetchLocal[k].new_klines)]
         /\ pcFetch' = [pcFetch EXCEPT ![k] = "idle"]
         /\ fetchLocal' = [fetchLocal EXCEPT ![k] = NoLocal]
         /\ UNCHANGED pcFlusher
    ELSE \* _flush_all_buffers: gather returns when every flush has returned
         /\ IF \A j \in Keys : jobs[j].st = "idle"
            THEN /\ buffer_lock' = "free"
                 /\ pcFlusher' = IF flushJob[k].owner = "periodic"
                                 THEN "sleep" ELSE pcFlusher
            ELSE UNCHANGED <<buffer_lock, pcFlusher>>
         /\ UNCHANGED <<memory_cursor, pcFetch, fetchLocal>>

\* _flush_buffer: one attempt of db.bulk_insert_klines(klines_to_write)
FlushAttemptWith(k, outcome) ==
    /\ flushJob[k].st = "write"
    /\   LET job == flushJob[k]
             done == [flushJob EXCEPT ![k] = IdleJob]
         IN  /\ (outcome = "raised") => (stats.flush_failures < MaxFlushFailures)
             /\ IF outcome # "raised"
                THEN /\ dbKlines' = IF outcome = "committed"
                                    THEN dbKlines \cup {job.batch[i].id : i \in 1..Len(job.batch)}
                                    ELSE dbKlines
                     /\ stats' = [stats EXCEPT !.total_flushed = @ + Len(job.batch)]
                     /\ flushJob' = done
                     /\ FlushReturns(k, done)
                     /\ UNCHANGED write_buffer
                ELSE IF job.attempt < max_retries - 1
                THEN \* await asyncio.sleep(1 * (attempt + 1))
                     /\ flushJob' = [flushJob EXCEPT ![k].st = "backoff"]
                     /\ UNCHANGED <<dbKlines, stats, write_buffer, buffer_lock,
                                    memory_cursor, pcFetch, fetchLocal, pcFlusher>>
                ELSE \* all retries failed: put the data back in the buffer
                     /\ stats' = [stats EXCEPT !.flush_failures = @ + 1]
                     /\ write_buffer' = [write_buffer EXCEPT ![k] =
                                            Requeue(write_buffer[k], job.batch)]
                     /\ flushJob' = done
                     /\ FlushReturns(k, done)
                     /\ UNCHANGED dbKlines
    /\ UNCHANGED <<now, phase, initLeft, lastTsQueries>>
    /\ UNCHANGED otherThanProducer

\* _flush_buffer: an attempt with any outcome of the Store
FlushAttempt(k) == \E outcome \in InsertOutcomes : FlushAttemptWith(k, outcome)

\* _flush_buffer: the attempt with a working Store
FlushCommits(k) == FlushAttemptWith(k, "committed")

\* _flush_buffer: the backoff sleep ends, the next attempt starts
FlushBackoffEnds(k) ==
    /\ flushJob[k].st = "backoff"
    /\ flushJob' = [flushJob EXCEPT ![k].st = "write", ![k].attempt = @ + 1]
    /\ UNCHANGED <<now, phase, initLeft, memory_cursor, write_buffer,
                   buffer_lock, stats, pcFetch, fetchLocal, pcFlusher,
                   dbKlines, lastTsQueries>>
    /\ UNCHANGED otherThanProducer

\* _periodic_flush wakes up; _flush_all_buffers takes the lock and starts a
\* _flush_buffer for every non-empty buffer
PeriodicFlush ==
    /\ phase = "running"
    /\ pcFlusher = "sleep"
    /\ buffer_lock = "free"
    /\ LET full == {k \in Keys : write_buffer[k] # <<>>}
       IN  /\ flushJob' = [k \in Keys |->
                 IF k \in full
                 THEN [st |-> "write", batch |-> write_buffer[k],
                       attempt |-> 0, owner |-> "periodic"]
                 ELSE flushJob[k]]
           /\ write_buffer' = [k \in Keys |-> <<>>]
           /\ IF full = {}
              THEN UNCHANGED <<buffer_lock, pcFlusher>>
              ELSE buffer_lock' = "periodic" /\ pcFlusher' = "flushing"
    /\ UNCHANGED <<now, phase, initLeft, memory_cursor, stats, pcFetch,
                   fetchLocal, dbKlines, lastTsQueries>>
    /\ UNCHANGED otherThanProducer

\* The ids of a list of bars
IdsOf(bars) == {bars[i].id : i \in 1..Len(bars)}

\* stop(), first part: Node.stop() cancels produce() and _periodic_flush()
\* and waits for them.  CancelledError is raised at the await each task is
\* suspended in; it is no Exception, so no except clause of the fetch and
\* flush code handles it: every _fetch_incremental ends, a _flush_buffer
\* that awaits the Store ends with its batch neither written back to the
\* buffer nor known to be committed (the interrupted commit may or may not
\* have taken effect), and the lock is released.
StopCancels ==
    /\ phase = "running"
    /\ phase' = "stopping"
    /\ pcFetch' = [k \in Keys |-> "idle"]
    /\ fetchLocal' = [k \in Keys |-> NoLocal]
    /\ pcFlusher' = "cancelled"
    /\ buffer_lock' = "free"
    /\ \E saved \in SUBSET {k \in Keys : flushJob[k].st = "write"} :
          dbKlines' = dbKlines \cup UNION {IdsOf(flushJob[k].batch) : k \in saved}
    /\ flushJob' = [k \in Keys |-> IdleJob]
    /\ UNCHANGED <<now, initLeft, memory_cursor, write_buffer, stats,
                   lastTsQueries>>
    /\ UNCHANGED otherThanProducer

\* stop(), second part: _flush_all_buffers takes the lock and starts a
\* _flush_buffer for every non-empty buffer
StopFlushes ==
    /\ phase = "stopping"
    /\ phase' = "draining"
    /\ LET full == {k \in Keys : write_buffer[k] # <<>>}
       IN  /\ flushJob' = [k \in Keys |->
                 IF k \in full
                 THEN [st |-> "write", batch |-> write_buffer[k],
                       attempt |-> 0, owner |-> "stop"]
                 ELSE flushJob[k]]
           /\ write_buffer' = [k \in Keys |-> <<>>]
           /\ buffer_lock' = IF full = {} THEN "free" ELSE "stop"
    /\ UNCHANGED <<now, initLeft, memory_cursor, stats, pcFetch, fetchLocal,
                   pcFlusher, dbKlines, lastTsQueries>>
    /\ UNCHANGED otherThanProducer

\* stop() returns: _flush_all_buffers has returned
StopReturns ==
    /\ phase = "draining"
    /\ buffer_lock = "free"
    /\ phase' = "stopped"
    /\ UNCHANGED <<now, initLeft, memory_cursor, write_buffer, buffer_lock,
                   stats, pcFetch, fetchLocal, flushJob, pcFlusher, dbKlines,
                   lastTsQueries>>
    /\ UNCHANGED otherThanProducer

\* The producer from start() to the return of stop(), with a Store that
\* works
ShutdownNext ==
    \/ AdvanceClock
    \/ InitializeCursor
    \/ StartLoops
    \/ TickStart
    \/ \E k \in Keys : FetchFails(k)
    \/ \E k \in Keys : FetchReturn(k)
    \/ \E k \in Keys : AddToBuffer(k)
    \/ \E k \in Keys : FlushCommits(k)
    \/ PeriodicFlush
    \/ StopCancels
    \/ StopFlushes
    \/ StopReturns

\* The producer with the log of what it has published
PublishNext ==
    \/ AdvanceClock
    \/ InitializeCursor
    \/ StartLoops
    \/ TickStart
    \/ \E k \in Keys : FetchFails(k)
    \/ \E k \in Keys : FetchPublishes(k)
    \/ \E k \in Keys : AddToBuffer(k)
    \/ \E k \in Keys : FlushAttempt(k)
    \/ \E k \in Keys : FlushBackoffEnds(k)
    \/ PeriodicFlush

ProducerNext ==
    \/ AdvanceClock
    \/ InitializeCursor
    \/ StartLoops
    \/ TickStart
    \/ \E k \in Keys : FetchFails(k)
    \/ \E k \in Keys : FetchReturn(k)
    \/ \E k \in Keys : AddToBuffer(k)
    \/ \E k \in Keys : FlushAttempt(k)
    \/ \E k \in Keys : FlushBackoffEnds(k)
    \/ PeriodicFlush


(***************************************************************************)
(* Strategy runtime, trading engine and position manager in a back-test    *)
(* (nodes/strategies/base_strategy.py, core/trading_engine.py,             *)
(* core/position_manager.py, core/data_source.py).  Money and prices are   *)
(* integers; a factor such as 0.97 is applied to both sides of a           *)
(* comparison in hundredths, and a quotient is the integer quotient.       *)
(***************************************************************************)

\* Timestamps 1..MaxTs of the back-test stream, close prices 1..MaxPrice and
\* ATR values 0..MaxAtr (0 is an indicator without atr14)
MaxTs == 4
MaxPrice == 2
MaxAtr == 1

Symbols == {"BTCUSDT"}
Prices == 1..MaxPrice
Atrs == 0..MaxAtr

\* BacktestRequest.initial_capital is a float without validation
InitialCapitals == {0, 1000000}

\* PositionManagerFactory.create_<preset>; the fractions are in percent
Presets == {"conservative", "moderate", "aggressive"}

PresetParams(p) ==
    CASE p = "conservative" ->
            [max_positions |-> 2, max_exposure_pct |-> 50,
             single_position_max_pct |-> 30, risk_per_trade |-> 1]
      [] p = "moderate" ->
            [max_positions |-> 3, max_exposure_pct |-> 80,
             single_position_max_pct |-> 50, risk_per_trade |-> 2]
      [] p = "aggressive" ->
            [max_positions |-> 5, max_exposure_pct |-> 95,
             single_position_max_pct |-> 70, risk_per_trade |-> 5]

NoKline == [ts |-> NoTs, close |-> 0]
NoIndicator == [ts |-> NoTs, atr14 |-> 0]
NoEvaluation == [ran |-> FALSE, kline |-> NoTs, indicator |-> NoTs,
                 prev_indicator |-> NoTs]
FlatPosition == [has_position |-> FALSE, side |-> None, entry_price |-> 0,
                 entry_time |-> NoTs, highest_price |-> 0, lowest_price |-> 0]
NoPmPosition == [open |-> FALSE, side |-> None, usdt_amount |-> 0,
                 entry_price |-> 0, entry_time |-> NoTs]

EngineInit ==
    /\ mode = "none"
    /\ streamPos = 0
    /\ state = [s \in Symbols |->
                  [kline |-> NoKline, indicator |-> NoIndicator,
                   prev_indicator |-> NoIndicator]]
    /\ positions = [s \in Symbols |-> FlatPosition]
    /\ evaluated = NoEvaluation
    /\ pm_params = PresetParams("moderate")
    /\ pm_positions = [s \in Symbols |-> NoPmPosition]
    /\ current_balance = 0
    /\ initial_balance = 0

\* run_backtest_task builds the position manager from the request and the
\* engine in back-test mode
CreateEngine ==
    /\ mode = "none"
    /\ \E capital \in InitialCapitals, preset \in Presets :
          /\ pm_params' = PresetParams(preset)
          /\ current_balance' = capital
          /\ initial_balance' = capital
    /\ mode' = "backtest"
    /\ UNCHANGED <<streamPos, state, positions, evaluated, pm_positions>>
    /\ UNCHANGED otherThanEngine

\* _calculate_stop_loss, in hundredths of a price unit: two ATR away from the
\* entry price, or 3 % when the indicator has no atr14
CalculateStopLoss(entry_price, side, atr14) ==
    IF atr14 # 0
    THEN IF side = "LONG" THEN 100 * entry_price - 200 * atr14
                          ELSE 100 * entry_price + 200 * atr14
    ELSE IF side = "LONG" THEN 97 * entry_price ELSE 103 * entry_price

\* _calculate_take_profit, in hundredths: three ATR, or 6 %
CalculateTakeProfit(entry_price, side, atr14) ==
    IF atr14 # 0
    THEN IF side = "LONG" THEN 100 * entry_price + 300 * atr14
                          ELSE 100 * entry_price - 300 * atr14
    ELSE IF side = "LONG" THEN 106 * entry_price ELSE 94 * entry_price

\* BaseStrategy.check_exit_signal: stop loss, take profit, trailing stop
BaseExit(pos, close, atr14) ==
    IF pos.side = "LONG"
    THEN \/ 100 * close <= CalculateStopLoss(pos.entry_price, "LONG", atr14)
         \/ 100 * close >= CalculateTakeProfit(pos.entry_price, "LONG", atr14)
         \/ 100 * close <= 95 * pos.highest_price
    ELSE IF pos.side = "SHORT"
    THEN \/ 100 * close >= CalculateStopLoss(pos.entry_price, "SHORT", atr14)
         \/ 100 * close <= CalculateTakeProfit(pos.entry_price, "SHORT", atr14)
         \/ 100 * close >= 105 * pos.lowest_price
    ELSE FALSE

\* What a concrete strategy's check_entry_signal makes of the indicators
EntryVerdicts == {None, "LONG", "SHORT"}

Abs(x) == IF x < 0 THEN 0 - x ELSE x
Min(a, b) == IF a <= b THEN a ELSE b

\* RiskBasedSizing.calculate_position_size; stop_loss is in hundredths
RiskBasedSize(price, stop_loss, balance, risk_per_trade) ==
    IF stop_loss = 0
    THEN balance \div 10
    ELSE Min((balance * risk_per_trade * price) \div Abs(100 * price - stop_loss),
             balance \div 2)

RECURSIVE SumUsdt(_, _)
SumUsdt(pp, S) ==
    IF S = {} THEN 0
    ELSE LET s == CHOOSE x \in S : TRUE
         IN  pp[s].usdt_amount + SumUsdt(pp, S \ {s})

NoOrder == [ok |-> FALSE, usdt_amount |-> 0, price |-> 0]

\* calculate_order_size: what is left of the exposure limit is less than
\* half of the amount asked for
TooLittleNever(available, size) == FALSE
TooLittle(available, size) == 2 * available < size

\* PositionManager.calculate_order_size
CalculateOrderSize(price, stop_loss, pp, balance, params) ==
    LET held == {s \in DOMAIN pp : pp[s].open}
        size0 == RiskBasedSize(price, stop_loss, balance, params.risk_per_trade)
        max_single_position ==
            (balance * params.single_position_max_pct) \div 100
        size1 == IF size0 > max_single_position
                 THEN max_single_position ELSE size0
        current_exposure == SumUsdt(pp, held)
        max_exposure == (balance * params.max_exposure_pct) \div 100
        available == max_exposure - current_exposure
    IN  IF Cardinality(held) >= params.max_positions THEN NoOrder
        ELSE IF current_exposure + size1 > max_exposure
        THEN IF TooLittle(available, size1) THEN NoOrder
             ELSE [ok |-> TRUE, usdt_amount |-> available, price |-> price]
        ELSE [ok |-> TRUE, usdt_amount |-> size1, price |-> price]

\* PositionManager.close_position divides the profit by the position's
\* amount before it touches the balance: a position of amount 0 raises
ClosePositionRaises(pos) == pos.usdt_amount = 0

\* profit of close_position; the quantity is usdt_amount / entry_price
Pnl(pos, exit_price) ==
    IF pos.side = "LONG"
    THEN ((exit_price - pos.entry_price) * pos.usdt_amount) \div pos.entry_price
    ELSE ((pos.entry_price - exit_price) * pos.usdt_amount) \div pos.entry_price

\* PositionManager.open_position stores the position under the symbol,
\* whatever is stored there
OpenPositionWithQuantity(pp, order_info, sig) ==
    [pp EXCEPT ![sig.symbol] =
        [open |-> TRUE, side |-> sig.side,
         usdt_amount |-> order_info.usdt_amount \div order_info.price,
         entry_price |-> order_info.price, entry_time |-> sig.timestamp]]
OpenPosition(pp, order_info, sig) ==
    [pp EXCEPT ![sig.symbol] =
        [open |-> TRUE, side |-> sig.side,
         usdt_amount |-> order_info.usdt_amount,
         entry_price |-> order_info.price, entry_time |-> sig.timestamp]]

\* TradingEngine._handle_signal_direct: the positions and the balance of the
\* position manager after the signal; an exception leaves them as they are
HandleSignalDirect(sig, pp, balance, params) ==
    IF sig.action = "OPEN"
    THEN LET order_info == CalculateOrderSize(sig.price, sig.stop_loss, pp,
                                              balance, params)
         IN  IF order_info.ok
             THEN [positions |-> OpenPosition(pp, order_info, sig),
                   balance |-> balance - order_info.usdt_amount]
             ELSE [positions |-> pp, balance |-> balance]
    ELSE LET pos == pp[sig.symbol]
         IN  IF pos.open /\ ~ClosePositionRaises(pos)
             THEN [positions |-> [pp EXCEPT ![sig.symbol] = NoPmPosition],
                   balance |-> balance + pos.usdt_amount + Pnl(pos, sig.price)]
             ELSE [positions |-> pp, balance |-> balance]

\* process(): the three pieces of a symbol's state are present
StateComplete(st) ==
    /\ st.kline.ts # NoTs
    /\ st.indicator.ts # NoTs
    /\ st.prev_indicator.ts # NoTs

\* process(): the bar and the current indicator carry the same timestamp
TimestampsAlignedAlways(kline, indicator) == TRUE
TimestampsAligned(kline, indicator) == kline.ts = indicator.ts

\* process() hands a signal to the engine's direct handler
Dispatch(sig) ==
    LET after == HandleSignalDirect(sig, pm_positions, current_balance,
                                    pm_params)
    IN  /\ pm_positions' = after.positions
        /\ current_balance' = after.balance

\* The body of process() once the symbol's state st has been updated
Decide(s, st) ==
    LET kline == st.kline
        indicator == st.indicator
        pos == positions[s]
    IN
    IF ~(StateComplete(st) /\ TimestampsAligned(kline, indicator))
    THEN /\ evaluated' = NoEvaluation
         /\ UNCHANGED <<positions, pm_positions, current_balance>>
    ELSE
    /\ evaluated' = [ran |-> TRUE, kline |-> kline.ts,
                     indicator |-> indicator.ts,
                     prev_indicator |-> st.prev_indicator.ts]
    /\ IF pos.has_position
       THEN \E own_exit \in BOOLEAN :
              IF BaseExit(pos, kline.close, indicator.atr14) \/ own_exit
              THEN /\ positions' = [positions EXCEPT
                                       ![s].has_position = FALSE,
                                       ![s].side = None]
                   /\ Dispatch([action |-> "CLOSE", symbol |-> s,
                                side |-> pos.side, price |-> kline.close,
                                timestamp |-> kline.ts, stop_loss |-> 0])
              ELSE /\ positions' = [positions EXCEPT
                          ![s].highest_price =
                              IF kline.close > @ THEN kline.close ELSE @,
                          ![s].lowest_price =
                              IF kline.close < @ THEN kline.close ELSE @]
                   /\ UNCHANGED <<pm_positions, current_balance>>
       ELSE \E verdict \in EntryVerdicts, confirmed \in BOOLEAN :
              IF verdict = None \/ ~confirmed
              THEN UNCHANGED <<positions, pm_positions, current_balance>>
              ELSE /\ positions' = [positions EXCEPT ![s] =
                          [has_position |-> TRUE, side |-> verdict,
                           entry_price |-> kline.close,
                           entry_time |-> kline.ts,
                           highest_price |-> kline.close,
                           lowest_price |-> kline.close]]
                   /\ Dispatch([action |-> "OPEN", symbol |-> s,
                                side |-> verdict, price |-> kline.close,
                                timestamp |-> kline.ts,
                                stop_loss |-> CalculateStopLoss(
                                    kline.close, verdict, indicator.atr14)])

\* BacktestDataSource.get_data_stream yields the items sorted by timestamp;
\* the sort is stable and the bars of a symbol are listed before its
\* indicators
StreamPlace(ts, kind) == 2 * ts + (IF kind = "kline" THEN 0 ELSE 1)

\* The stream yields a bar and the engine passes it to process()
ProcessKline ==
    /\ mode = "backtest"
    /\ \E s \in Symbols, ts \in 1..MaxTs, close \in Prices :
          /\ StreamPlace(ts, "kline") > streamPos
          /\ streamPos' = StreamPlace(ts, "kline")
          /\ LET st == [state[s] EXCEPT !.kline = [ts |-> ts, close |-> close]]
             IN  /\ state' = [state EXCEPT ![s] = st]
                 /\ Decide(s, st)
    /\ UNCHANGED <<mode, pm_params, initial_balance>>
    /\ UNCHANGED otherThanEngine

\* The stream yields an indicator and the engine passes it to process()
ProcessIndicator ==
    /\ mode = "backtest"
    /\ \E s \in Symbols, ts \in 1..MaxTs, atr14 \in Atrs :
          /\ StreamPlace(ts, "indicator") > streamPos
          /\ streamPos' = StreamPlace(ts, "indicator")
          /\ LET st == [state[s] EXCEPT
                          !.prev_indicator =
                              IF state[s].indicator.ts # NoTs
                              THEN state[s].indicator ELSE @,
                          !.indicator = [ts |-> ts, atr14 |-> atr14]]
             IN  /\ state' = [state EXCEPT ![s] = st]
                 /\ Decide(s, st)
    /\ UNCHANGED <<mode, pm_params, initial_balance>>
    /\ UNCHANGED otherThanEngine

EngineNext ==
    \/ CreateEngine
    \/ ProcessKline
    \/ ProcessIndicator


(***************************************************************************)
(* The strategy runtime on the message bus (nodes/strategies/              *)
(* base_strategy.py, nodes/indicator_node.py, core/message_bus.py,         *)
(* core/node_base.py, main.py).  A subject is the sequence of its          *)
(* colon-separated parts; a subscription is such a sequence and a flag     *)
(* that tells whether the string ends with "*".                            *)
(***************************************************************************)

\* Bar timestamps 1..MaxLiveTs seen by the running strategy
MaxLiveTs == 1
LiveTss == 1..MaxLiveTs

Timeframes == {"1h"}
\* start_indicator_node of main.py serves both markets; the producer publishes
\* the market of settings.market_type
MarketTypes == {"spot", "future"}
ProducerMarketTypes == {"future"}

\* --timeframe of the strategy process is a free string: a timeframe, or a
\* timeframe followed by "*"
TimeframeArgs ==
    {[text |-> tf, star |-> star] : tf \in Timeframes, star \in BOOLEAN}

\* None of an Optional[float]
Missing == 0 - 1

\* KlineData.close and .volume; SignalData.confidence in percent
Closes == {100}
Volumes == {0, 1}
Confidences == {0, 30, 80}

\* IndicatorData.volume_ma5, .atr14 and .ma20: a calm market, a volatile
\* market, and the indicator of a short history (20 bars make a ma20)
IndicatorValues ==
    {[volume_ma5 |-> 2, atr14 |-> 1, ma20 |-> 100],
     [volume_ma5 |-> 2, atr14 |-> 6, ma20 |-> 100],
     [volume_ma5 |-> 2, atr14 |-> 6, ma20 |-> Missing]}

IndicatorAt(ts, values) ==
    [ts |-> ts, volume_ma5 |-> values.volume_ma5, atr14 |-> values.atr14,
     ma20 |-> values.ma20]

\* The optional AI adjudication of confirm_signal: disabled or failed, it
\* lets the candidate through as "execute" does
AiDecisions == {"execute", "reject"}

NoRtKline == [ts |-> NoTs, close |-> 0, volume |-> 0]
NoRtIndicator == [ts |-> NoTs, volume_ma5 |-> Missing, atr14 |-> Missing,
                  ma20 |-> Missing]
\* node: what IndicatorNode.process did in the step ("none": it did not
\* run); the other fields: what BaseStrategy.process did in the step
NoCall == [node |-> "none", called |-> FALSE, evaluated |-> FALSE,
           signal |-> None, confidence |-> Missing, rejected |-> FALSE,
           handed |-> FALSE, persisted |-> FALSE, published |-> FALSE,
           raised |-> FALSE, escaped |-> FALSE]
NoPublication == [topic |-> <<>>, receivers |-> {}]

RuntimeInit ==
    /\ runtime = "none"
    /\ input_topics = {}
    /\ rt_state = [s \in Symbols |->
                     [kline |-> NoRtKline, indicator |-> NoRtIndicator,
                      prev_indicator |-> NoRtIndicator]]
    /\ rt_positions = [s \in Symbols |-> FlatPosition]
    /\ last = NoCall
    /\ last_pub = NoPublication
    /\ error_logged = FALSE

\* KlineNode._fetch_incremental: f"kline:{symbol}:{timeframe}:{market_type}"
KlineTopic(symbol, timeframe, market_type) ==
    <<"kline", symbol, timeframe, market_type>>

\* IndicatorNode.process: f"indicator:{symbol}:{timeframe}"
IndicatorTopic(symbol, timeframe) == <<"indicator", symbol, timeframe>>

\* BacktestDataSource.get_data_stream: f"kline:{symbol}:{timeframe}"
StreamKlineTopic(symbol, timeframe) == <<"kline", symbol, timeframe>>

\* BaseStrategy.__init__: f"kline:{symbol}:{timeframe}" and
\* f"indicator:{symbol}:{timeframe}" for every symbol
InputTopics(arg) ==
    UNION {{[parts |-> <<"kline", s, arg.text>>, star |-> arg.star],
            [parts |-> <<"indicator", s, arg.text>>, star |-> arg.star]} :
           s \in Symbols}

\* IndicatorNode.__init__: f"kline:{symbol}:{tf}:{mt}"
IndicatorInputTopics ==
    {[parts |-> KlineTopic(s, tf, mt), star |-> FALSE] :
       s \in Symbols, tf \in Timeframes, mt \in MarketTypes}

\* MessageBus.subscribe: psubscribe when the string holds "*", else an exact
\* subscribe; a trailing "*" matches every subject that starts with the rest
SubscribedTo(sub, channel) ==
    IF sub.star
    THEN /\ Len(channel) >= Len(sub.parts)
         /\ SubSeq(channel, 1, Len(sub.parts)) = sub.parts
    ELSE channel = sub.parts

Delivered(subs, channel) == \E sub \in subs : SubscribedTo(sub, channel)

\* Python truthiness of an Optional[float]
Truthy(v) == v # Missing /\ v # 0

\* BaseStrategy.confirm_signal
ConfirmSignal(confidence, kline, indicator, ai) ==
    /\ ~(Truthy(confidence) /\ confidence < 50)
    /\ ~(/\ Truthy(indicator.volume_ma5)
         /\ 2 * kline.volume < indicator.volume_ma5)
    /\ ~(/\ Truthy(indicator.atr14)
         /\ Truthy(indicator.ma20)
         /\ 100 * indicator.atr14 > 5 * indicator.ma20)
    /\ ai # "reject"

\* The statements of process() that can raise, and those of them that stand
\* inside its try block
FaultPoints == {"parse", "check", "confirm", "dispatch"}
GuardedPointsParseOnly == {"parse"}
GuardedPoints == {"parse", "check", "confirm", "dispatch"}

\* A handler of the step has logged an exception
LogsError(call) ==
    call.raised \/ (call.node # "none" /\ call.node # "returned")

\* process() returns
Returns(call) ==
    /\ last' = call
    /\ error_logged' = (error_logged \/ LogsError(call))

\* A statement of process() raises: the except clause logs the exception;
\* one that is not caught there leaves process() and is logged by the caller
Raises(point, call) ==
    /\ last' = [call EXCEPT !.raised = TRUE,
                            !.escaped = point \notin GuardedPoints]
    /\ error_logged' = TRUE

\* process(): the signal is saved and published, or handed to the engine;
\* the direct handler or emit may raise
DispatchSignal(call) ==
    IF runtime = "backtest"
    THEN LET handed == [call EXCEPT !.handed = TRUE]
         IN  \/ Returns(handed)
             \/ Raises("dispatch", handed)
    ELSE \E success \in BOOLEAN :
            IF ~success
            THEN Returns(call)
            ELSE LET saved == [call EXCEPT !.persisted = TRUE]
                 IN  \/ Returns([saved EXCEPT !.published = TRUE])
                     \/ \E sent \in BOOLEAN :
                           Raises("dispatch",
                                  [saved EXCEPT !.published = sent])

\* process(): the entry branch for a candidate of check_entry_signal
RuntimeEntry(s, kline, indicator, call, side) ==
    \E confidence \in Confidences :
       LET candidate == [call EXCEPT !.confidence = confidence]
       IN  \/ /\ UNCHANGED rt_positions
               /\ Raises("confirm", candidate)
           \/ \E ai \in AiDecisions :
                 IF ~ConfirmSignal(confidence, kline, indicator, ai)
                 THEN /\ UNCHANGED rt_positions
                      /\ Returns([candidate EXCEPT !.rejected = TRUE])
                 ELSE /\ rt_positions' = [rt_positions EXCEPT ![s] =
                             [has_position |-> TRUE, side |-> side,
                              entry_price |-> kline.close,
                              entry_time |-> kline.ts,
                              highest_price |-> kline.close,
                              lowest_price |-> kline.close]]
                      /\ DispatchSignal([candidate EXCEPT
                                            !.signal = "OPEN"])

\* The body of process() of the running strategy once the symbol's state st
\* has been updated
RuntimeDecide(s, st, call) ==
    LET kline == st.kline
        indicator == st.indicator
        pos == rt_positions[s]
        ran == [call EXCEPT !.evaluated = TRUE]
    IN
    IF ~(StateComplete(st) /\ TimestampsAligned(kline, indicator))
    THEN /\ UNCHANGED rt_positions
         /\ Returns(call)
    ELSE
    \/ /\ UNCHANGED rt_positions
        /\ Raises("check", ran)
    \/ IF pos.has_position
       THEN \E own_exit \in BOOLEAN :
              IF BaseExit(pos, kline.close, indicator.atr14) \/ own_exit
              THEN /\ rt_positions' = [rt_positions EXCEPT
                                          ![s].has_position = FALSE,
                                          ![s].side = None]
                   /\ DispatchSignal([ran EXCEPT !.signal = "CLOSE"])
              ELSE /\ rt_positions' = [rt_positions EXCEPT
                          ![s].highest_price =
                              IF kline.close > @ THEN kline.close ELSE @,
                          ![s].lowest_price =
                              IF kline.close < @ THEN kline.close ELSE @]
                   /\ Returns(ran)
       ELSE \E verdict \in EntryVerdicts :
              IF verdict = None
              THEN /\ UNCHANGED rt_positions
                   /\ Returns(ran)
              ELSE RuntimeEntry(s, kline, indicator, ran, verdict)

\* BaseStrategy.process(topic, data) in a step whose record so far is step
RuntimeProcess(topic, data, step) ==
    LET call == [step EXCEPT !.called = TRUE]
    IN
    IF Len(topic) < 3
    THEN /\ UNCHANGED <<rt_state, rt_positions>>
         /\ Returns(call)
    ELSE
    LET symbol == topic[2]
        shifted == [rt_state[symbol] EXCEPT
                       !.prev_indicator =
                           IF rt_state[symbol].indicator.ts # NoTs
                           THEN rt_state[symbol].indicator ELSE @]
    IN
    IF topic[1] = "kline"
    THEN \/ /\ UNCHANGED <<rt_state, rt_positions>>
            /\ Raises("parse", call)
         \/ LET st == [rt_state[symbol] EXCEPT !.kline = data]
            IN  /\ rt_state' = [rt_state EXCEPT ![symbol] = st]
                /\ RuntimeDecide(symbol, st, call)
    ELSE \/ /\ rt_state' = [rt_state EXCEPT ![symbol] = shifted]
            /\ UNCHANGED rt_positions
            /\ Raises("parse", call)
         \/ LET st == [shifted EXCEPT !.indicator = data]
            IN  /\ rt_state' = [rt_state EXCEPT ![symbol] = st]
                /\ RuntimeDecide(symbol, st, call)

\* No process() of the strategy is called in the step
NotCalled(step) ==
    /\ last' = step
    /\ error_logged' = (error_logged \/ LogsError(step))
    /\ UNCHANGED <<rt_state, rt_positions>>

\* start_strategy_node of main.py: the strategy is built with --timeframe and
\* Node.start subscribes process() to every input topic
StartLive ==
    /\ runtime = "none"
    /\ runtime' = "live"
    /\ \E arg \in TimeframeArgs : input_topics' = InputTopics(arg)
    /\ UNCHANGED <<rt_state, rt_positions, last, last_pub, error_logged>>
    /\ UNCHANGED otherThanRuntime

\* TradingEngine.__init__ in back-test mode sets _direct_signal_handler; the
\* strategy is not started
StartBacktest ==
    /\ runtime = "none"
    /\ runtime' = "backtest"
    /\ UNCHANGED <<input_topics, rt_state, rt_positions, last, last_pub,
                   error_logged>>
    /\ UNCHANGED otherThanRuntime

\* The producer publishes a bar; the subscribe loops whose subscription
\* matches the subject call their callback
ProducerEmits ==
    /\ runtime = "live"
    /\ \E s \in Symbols, tf \in Timeframes, mt \in ProducerMarketTypes,
          ts \in LiveTss, close \in Closes, volume \in Volumes :
          LET topic == KlineTopic(s, tf, mt)
              data == [ts |-> ts, close |-> close, volume |-> volume]
              got == Delivered(input_topics, topic)
          IN  /\ last_pub' =
                    [topic |-> topic,
                     receivers |->
                        (IF got THEN {"strategy"} ELSE {}) \cup
                        (IF Delivered(IndicatorInputTopics, topic)
                         THEN {"indicator_node"} ELSE {})]
              /\ IF got
                 THEN RuntimeProcess(topic, data, NoCall)
                 ELSE NotCalled(NoCall)
    /\ UNCHANGED <<runtime, input_topics>>
    /\ UNCHANGED otherThanRuntime

\* The statements of IndicatorNode.process that can raise, and those inside
\* its try block
NodeFaultPoints == {"parse", "compute", "emit"}
NodeGuardedPoints == {"parse", "compute", "emit"}

\* IndicatorNode.process raises at a point
NodeRaises(point) ==
    [NoCall EXCEPT !.node = IF point \in NodeGuardedPoints
                            THEN "raised" ELSE "escaped"]

\* IndicatorNode.process(topic, data) for a bar it has received: it publishes
\* the indicator of the bar unless the calculators are not ready
IndicatorNodeProcess ==
    /\ runtime = "live"
    /\ "indicator_node" \in last_pub.receivers
    /\ LET parts == last_pub.topic
           topic == IndicatorTopic(parts[2], parts[3])
           returned == [NoCall EXCEPT !.node = "returned"]
       IN
       IF Len(parts) # 4
       THEN NotCalled(returned)
       ELSE
       \/ \E point \in {"parse", "compute"} :
             NotCalled(NodeRaises(point))
       \/ NotCalled(returned)
       \/ \E ts \in LiveTss, values \in IndicatorValues,
             step \in {returned, NodeRaises("emit")} :
             \/ /\ Delivered(input_topics, topic)
                /\ RuntimeProcess(topic, IndicatorAt(ts, values), step)
             \/ /\ step # returned \/ ~Delivered(input_topics, topic)
                /\ NotCalled(step)
    /\ UNCHANGED <<runtime, input_topics, last_pub>>
    /\ UNCHANGED otherThanRuntime

\* TradingEngine.run in back-test mode: an item of the data stream is passed
\* to process(); the order of the stream is that of StreamNext
StreamYields ==
    /\ runtime = "backtest"
    /\ \E s \in Symbols, tf \in Timeframes, ts \in LiveTss :
          \/ \E close \in Closes, volume \in Volumes :
                RuntimeProcess(StreamKlineTopic(s, tf),
                               [ts |-> ts, close |-> close,
                                volume |-> volume],
                               NoCall)
          \/ \E values \in IndicatorValues :
                RuntimeProcess(IndicatorTopic(s, tf), IndicatorAt(ts, values),
                               NoCall)
    /\ UNCHANGED <<runtime, input_topics, last_pub>>
    /\ UNCHANGED otherThanRuntime

RuntimeNext ==
    \/ StartLive
    \/ StartBacktest
    \/ ProducerEmits
    \/ IndicatorNodeProcess
    \/ StreamYields


(***************************************************************************)
(* The back-test data source (core/data_source.py, BacktestDataSource)     *)
(***************************************************************************)

\* Stored timestamps 1..MaxStreamTs; the database returns at most MaxStored
\* bars and at most MaxStored indicators for a symbol
MaxStreamTs == 2
MaxStored == 1

StreamSymbols == <<"BTCUSDT", "ETHUSDT">>
StreamSymbolSet == {StreamSymbols[i] : i \in 1..Len(StreamSymbols)}
StreamTss == 1..MaxStreamTs

\* The timestamps of the rows a query returns, in the order of the result
StoredRows ==
    UNION {[1..n -> StreamTss] : n \in 0..MaxStored}

StreamInit ==
    /\ pcStream = "idle"
    /\ kline_data = [s \in StreamSymbolSet |-> <<>>]
    /\ indicator_data = [s \in StreamSymbolSet |-> <<>>]
    /\ all_data = <<>>
    /\ yielded = <<>>

\* _load_klines, _load_indicators: the rows inside [start_time, end_time]
InTimeRange(rows, start_time, end_time) ==
    SelectSeq(rows, LAMBDA ts : start_time <= ts /\ ts <= end_time)

\* preload_data: the bars and the indicators of every symbol are loaded
PreloadData ==
    /\ pcStream = "idle"
    /\ pcStream' = "loaded"
    /\ \E start_time \in StreamTss, end_time \in StreamTss,
          klines \in [StreamSymbolSet -> StoredRows],
          indicators \in [StreamSymbolSet -> StoredRows] :
          /\ kline_data' = [s \in StreamSymbolSet |->
                              InTimeRange(klines[s], start_time, end_time)]
          /\ indicator_data' = [s \in StreamSymbolSet |->
                              InTimeRange(indicators[s], start_time,
                                          end_time)]
    /\ UNCHANGED <<all_data, yielded>>
    /\ UNCHANGED otherThanStream

\* get_data_stream: the items of one symbol, its bars before its indicators
ItemsOf(symbol) ==
    [i \in 1..Len(kline_data[symbol]) |->
        [timestamp |-> kline_data[symbol][i], kind |-> "kline",
         symbol |-> symbol]]
    \o
    [i \in 1..Len(indicator_data[symbol]) |->
        [timestamp |-> indicator_data[symbol][i], kind |-> "indicator",
         symbol |-> symbol]]

\* get_data_stream: all_data before the sort, symbol after symbol
RECURSIVE Merged(_)
Merged(n) ==
    IF n = 0 THEN <<>> ELSE Merged(n - 1) \o ItemsOf(StreamSymbols[n])

\* list.sort(key=lambda x: x[0]): a stable sort by timestamp
RECURSIVE InsertByTimestamp(_, _)
InsertByTimestamp(sorted, item) ==
    IF sorted = <<>>
    THEN <<item>>
    ELSE IF item.timestamp < Head(sorted).timestamp
         THEN <<item>> \o sorted
         ELSE <<Head(sorted)>> \o InsertByTimestamp(Tail(sorted), item)

SortSkipped(list) == list
RECURSIVE SortByTimestamp(_)
SortByTimestamp(list) ==
    IF list = <<>>
    THEN <<>>
    ELSE InsertByTimestamp(SortByTimestamp(SubSeq(list, 1, Len(list) - 1)),
                           list[Len(list)])

\* get_data_stream from the end of preload_data to its first yield
MergeAndSort ==
    /\ pcStream = "loaded"
    /\ pcStream' = "streaming"
    /\ all_data' = SortByTimestamp(Merged(Len(StreamSymbols)))
    /\ UNCHANGED <<kline_data, indicator_data, yielded>>
    /\ UNCHANGED otherThanStream

\* The loop of get_data_stream yields the next item
YieldItem ==
    /\ pcStream = "streaming"
    /\ all_data # <<>>
    /\ yielded' = Append(yielded, Head(all_data).timestamp)
    /\ all_data' = Tail(all_data)
    /\ UNCHANGED <<pcStream, kline_data, indicator_data>>
    /\ UNCHANGED otherThanStream

\* The loop of get_data_stream is over: the generator returns
StreamCompletes ==
    /\ pcStream = "streaming"
    /\ all_data = <<>>
    /\ pcStream' = "done"
    /\ UNCHANGED <<kline_data, indicator_data, all_data, yielded>>
    /\ UNCHANGED otherThanStream

StreamNext ==
    \/ PreloadData
    \/ MergeAndSort
    \/ YieldItem
    \/ StreamCompletes


(***************************************************************************)
(* Task manager (core/task_manager.py) with the back-test endpoints of     *)
(* api/rest.py.  A coroutine takes one step from one await to the next;    *)
(* `await ws.send_json` hands the message to the websocket when it is      *)
(* called and may suspend the caller before it returns.                    *)
(***************************************************************************)

\* Task ids 1..MaxTasks; update_progress calls one task function makes
MaxTasks == 4
MaxUpdates == 1
\* update_progress calls of a task function that chooses its values
MaxCalls == 2
\* hours the timer of the cache runs
MaxClock == 3

TaskIds == 1..MaxTasks
Sinks == {"a", "b"}

\* The task the websocket clients of the model connect to
WatchedTask == 1

\* max_concurrent of the two TaskManager instances
MaxConcurrent(m) == IF m = "backtest" THEN 3 ELSE 2

\* ttl_seconds of the two task managers (3600 and 7200), in hours
Ttl(m) == IF m = "backtest" THEN 1 ELSE 2

\* The progress values run_backtest_task reports, in the order of its calls
ProgressPlan == <<2, 5, 8, 15, 20, 25, 95, 98>>

\* Notifier 0 is the _notify_websockets call _run_task awaits; notifier i > 0
\* is the task the i-th update_progress call creates
NotifierIds == 0..MaxUpdates

\* Arguments of update_progress (a percentage)
ProgressValues == {0, 2, 5}

NoTask == [status |-> "absent", progress |-> 0, results |-> FALSE,
           error |-> FALSE, started_at |-> FALSE, completed_at |-> FALSE]
PendingTask == [status |-> "pending", progress |-> 0, results |-> FALSE,
                error |-> FALSE, started_at |-> FALSE, completed_at |-> FALSE]
IdleNotifier == [st |-> "idle", status |-> None, progress |-> 0, idx |-> 0,
                 disconnected |-> {}, stale |-> FALSE]

TaskInit ==
    /\ manager = "none"
    /\ semaphore = 0
    /\ active_tasks = 0
    /\ tasks = [t \in TaskIds |-> NoTask]
    /\ websocket_connections = [t \in TaskIds |-> <<>>]
    /\ pcRun = [t \in TaskIds |-> "none"]
    /\ fnCalls = [t \in TaskIds |-> 0]
    /\ fnOutcome = [t \in TaskIds |-> "none"]
    /\ notifier = [t \in TaskIds |-> [n \in NotifierIds |-> IdleNotifier]]
    /\ handler = [ws \in Sinks |-> "none"]
    /\ broken = [ws \in Sinks |-> FALSE]
    /\ lastRecv = [ws \in Sinks |-> -1]
    /\ got100 = [ws \in Sinks |-> FALSE]
    /\ regEarly = [ws \in Sinks |-> FALSE]

\* backtest_task_manager = TaskManager(max_concurrent=3)
ConstructBacktestManager ==
    /\ manager = "none"
    /\ manager' = "backtest"
    /\ semaphore' = MaxConcurrent("backtest")
    /\ UNCHANGED <<active_tasks, tasks, websocket_connections, pcRun, fnCalls,
                   fnOutcome, notifier, handler, broken, lastRecv, got100,
                   regEarly>>
    /\ UNCHANGED otherThanTasks

\* optimization_task_manager = TaskManager(max_concurrent=2)
ConstructOptimizationManager ==
    /\ manager = "none"
    /\ manager' = "optimization"
    /\ semaphore' = MaxConcurrent("optimization")
    /\ UNCHANGED <<active_tasks, tasks, websocket_connections, pcRun, fnCalls,
                   fnOutcome, notifier, handler, broken, lastRecv, got100,
                   regEarly>>
    /\ UNCHANGED otherThanTasks

\* create_task: store the pending entry and schedule _run_task; ids are
\* fresh (uuid4) and are handed out in order here
CreateTask(t) ==
    /\ manager # "none"
    /\ pcRun[t] = "none"
    /\ \A u \in TaskIds : u < t => pcRun[u] # "none"
    /\ tasks' = [tasks EXCEPT ![t] = PendingTask]
    /\ expires' = [expires EXCEPT ![t] = timer + Ttl(manager)]
    /\ pcRun' = [pcRun EXCEPT ![t] = "wait_sem"]
    /\ UNCHANGED <<manager, semaphore, active_tasks, websocket_connections,
                   fnCalls, fnOutcome, notifier, handler, broken, lastRecv,
                   got100, regEarly>>
    /\ UNCHANGED <<producerVars, engineVars, busVars, runtimeVars, streamVars,
                   timer, extraVars>>

\* TTLCache: an entry is expired once the timer has reached its expiry time
ExpiredNever(expiry, time) == FALSE
Expired(expiry, time) == expiry # NoTs /\ time >= expiry

\* Time passes; the entries whose TTL has passed are gone for every access
\* to the cache (get, in, [], iteration)
Tick ==
    /\ manager # "none"
    /\ timer < MaxClock
    /\ timer' = timer + 1
    /\ tasks' = [t \in TaskIds |->
                   IF Expired(expires[t], timer + 1) THEN NoTask ELSE tasks[t]]
    /\ UNCHANGED <<manager, semaphore, active_tasks, websocket_connections,
                   pcRun, fnCalls, fnOutcome, notifier, handler, broken,
                   lastRecv, got100, regEarly>>
    /\ UNCHANGED <<producerVars, engineVars, busVars, runtimeVars, streamVars,
                   expires, extraVars>>

\* The TTLCache drops the entry: its TTL has passed or the cache is full
Expire(t) ==
    /\ tasks[t].status # "absent"
    /\ tasks' = [tasks EXCEPT ![t] = NoTask]
    /\ UNCHANGED <<manager, semaphore, active_tasks, websocket_connections,
                   pcRun, fnCalls, fnOutcome, notifier, handler, broken,
                   lastRecv, got100, regEarly>>
    /\ UNCHANGED otherThanTasks

\* _notify_websockets goes on past its two early returns
NotifyRuns(t, task) ==
    /\ websocket_connections[t] # <<>>
    /\ task.status # "absent"

\* ws.send_json(msg): the websocket gets the message unless the send raises
SendTo(ws, msg) ==
    IF broken[ws]
    THEN UNCHANGED <<lastRecv, got100>>
    ELSE /\ lastRecv' = [lastRecv EXCEPT ![ws] = msg.progress]
         /\ got100' = [got100 EXCEPT ![ws] = @ \/ msg.progress = 100]

\* _notify_websockets from its start to its first await: the message is
\* built from the task as it is now and sent to the first of the list
NotifyBegin(t, n, task) ==
    IF NotifyRuns(t, task)
    THEN LET ws == websocket_connections[t][1]
         IN  /\ notifier' = [notifier EXCEPT ![t][n] =
                    [st |-> "sending", status |-> task.status,
                     progress |-> task.progress, idx |-> 1,
                     disconnected |-> IF broken[ws] THEN {ws} ELSE {},
                     stale |-> FALSE]]
             /\ SendTo(ws, task)
    ELSE UNCHANGED <<notifier, lastRecv, got100>>

\* list.remove(ws) for every ws of S
RECURSIVE Without(_, _)
Without(list, S) ==
    IF list = <<>> THEN <<>>
    ELSE IF Head(list) \in S THEN Without(Tail(list), S)
    ELSE <<Head(list)>> \o Without(Tail(list), S)

\* unregister_websocket deletes the list of a task once it is empty, and a
\* later registration makes a new list; a loop over the old list has nothing
\* left to visit
Orphaned(nts, emptied) ==
    [n \in NotifierIds |->
        IF emptied /\ nts[n].st = "sending"
        THEN [nts[n] EXCEPT !.stale = TRUE] ELSE nts[n]]

\* The for loop of _notify_websockets has visited the whole (live) list
NotifyFinishes(t, n) ==
    \/ notifier[t][n].stale
    \/ notifier[t][n].idx >= Len(websocket_connections[t])

\* _notify_websockets from one await to the next: the send to the next
\* websocket of the list or, after the loop, the removal of the websockets
\* whose send raised
NotifyAdvance(t, n) ==
    LET nt == notifier[t][n]
        list == websocket_connections[t]
    IN  IF NotifyFinishes(t, n)
        THEN LET left == Without(list, nt.disconnected)
                 emptied == list # <<>> /\ left = <<>>
             IN  /\ websocket_connections' =
                        [websocket_connections EXCEPT ![t] = left]
                 /\ notifier' = [notifier EXCEPT ![t] =
                        Orphaned([@ EXCEPT ![n] = IdleNotifier], emptied)]
                 /\ UNCHANGED <<lastRecv, got100>>
        ELSE LET ws == list[nt.idx + 1]
             IN  /\ notifier' = [notifier EXCEPT
                        ![t][n].idx = @ + 1,
                        ![t][n].disconnected =
                            IF broken[ws] THEN @ \cup {ws} ELSE @]
                 /\ SendTo(ws, nt)
                 /\ UNCHANGED websocket_connections

\* asyncio.Semaphore: a slot is taken only when one is free
SlotFreeAlways(sem) == TRUE
SlotFree(sem) == sem > 0

\* _run_task gets a slot, marks the task running and starts to notify
RunTaskStart(t) ==
    /\ pcRun[t] = "wait_sem"
    /\ SlotFree(semaphore)
    /\ semaphore' = semaphore - 1
    /\ active_tasks' = active_tasks + 1
    /\ LET task == IF tasks[t].status # "absent"
                   THEN [tasks[t] EXCEPT !.status = "running",
                                         !.started_at = TRUE]
                   ELSE tasks[t]
       IN  /\ tasks' = [tasks EXCEPT ![t] = task]
           /\ NotifyBegin(t, 0, task)
           /\ pcRun' = [pcRun EXCEPT ![t] =
                  IF NotifyRuns(t, task) THEN "start_notify" ELSE "executing"]
    /\ UNCHANGED <<manager, websocket_connections, fnCalls, fnOutcome,
                   handler, broken, regEarly>>
    /\ UNCHANGED otherThanTasks

\* The notification _run_task awaits goes on; when it is over _run_task
\* calls the task function or, after the final notification, gives its slot
\* back
RunNotifyStep(t) ==
    /\ pcRun[t] \in {"start_notify", "end_notify"}
    /\ notifier[t][0].st = "sending"
    /\ NotifyAdvance(t, 0)
    /\ IF ~NotifyFinishes(t, 0)
       THEN UNCHANGED <<pcRun, semaphore, active_tasks>>
       ELSE IF pcRun[t] = "start_notify"
       THEN /\ pcRun' = [pcRun EXCEPT ![t] = "executing"]
            /\ UNCHANGED <<semaphore, active_tasks>>
       ELSE /\ pcRun' = [pcRun EXCEPT ![t] = "finished"]
            /\ semaphore' = semaphore + 1
            /\ active_tasks' = active_tasks - 1
    /\ UNCHANGED <<manager, tasks, fnCalls, fnOutcome, handler, broken,
                   regEarly>>
    /\ UNCHANGED otherThanTasks

\* update_progress pushes only a progress that differs from the recorded one
ProgressChanged(progress, old_progress) == progress # old_progress

\* update_progress(task_id, progress); n is the notification task it creates
UpdateProgress(t, progress, n) ==
    IF /\ tasks[t].status # "absent"
       /\ ProgressChanged(progress, tasks[t].progress)
    THEN /\ tasks' = [tasks EXCEPT ![t].progress = progress]
         /\ notifier' = [notifier EXCEPT ![t][n] =
                [IdleNotifier EXCEPT !.st = "scheduled"]]
    ELSE UNCHANGED <<tasks, notifier>>

\* The task function calls update_progress with its next value
TaskFuncProgress(t) ==
    /\ pcRun[t] = "executing"
    /\ fnCalls[t] < MaxUpdates
    /\ fnCalls' = [fnCalls EXCEPT ![t] = @ + 1]
    /\ UpdateProgress(t, ProgressPlan[fnCalls[t] + 1], fnCalls[t] + 1)
    /\ UNCHANGED <<manager, semaphore, active_tasks, websocket_connections,
                   pcRun, fnOutcome, handler, broken, lastRecv, got100,
                   regEarly>>
    /\ UNCHANGED otherThanTasks

\* A task function, which is any coroutine handed to create_task, calls
\* update_progress with a value of its choice; the notification task of an
\* earlier call has ended
TaskFuncUpdates(t) ==
    /\ pcRun[t] = "executing"
    /\ fnCalls[t] < MaxCalls
    /\ notifier[t][1].st = "idle"
    /\ fnCalls' = [fnCalls EXCEPT ![t] = @ + 1]
    /\ \E progress \in ProgressValues : UpdateProgress(t, progress, 1)
    /\ UNCHANGED <<manager, semaphore, active_tasks, websocket_connections,
                   pcRun, fnOutcome, handler, broken, lastRecv, got100,
                   regEarly>>
    /\ UNCHANGED otherThanTasks

\* The notification task update_progress created starts to run
NotifyTaskStart(t, n) ==
    /\ n > 0
    /\ notifier[t][n].st = "scheduled"
    /\ IF NotifyRuns(t, tasks[t])
       THEN NotifyBegin(t, n, tasks[t])
       ELSE /\ notifier' = [notifier EXCEPT ![t][n] = IdleNotifier]
            /\ UNCHANGED <<lastRecv, got100>>
    /\ UNCHANGED <<manager, semaphore, active_tasks, tasks,
                   websocket_connections, pcRun, fnCalls, fnOutcome, handler,
                   broken, regEarly>>
    /\ UNCHANGED otherThanTasks

\* The notification task update_progress created goes on
BackgroundNotifyStep(t, n) ==
    /\ n > 0
    /\ notifier[t][n].st = "sending"
    /\ NotifyAdvance(t, n)
    /\ UNCHANGED <<manager, semaphore, active_tasks, tasks, pcRun, fnCalls,
                   fnOutcome, handler, broken, regEarly>>
    /\ UNCHANGED otherThanTasks

\* What _run_task writes to the task when the task function has ended
TerminalTaskAlwaysCompleted(task, outcome) ==
    [task EXCEPT !.status = "completed", !.results = TRUE,
                 !.completed_at = TRUE, !.progress = 100]
TerminalTask(task, outcome) ==
    IF outcome = "returned"
    THEN [task EXCEPT !.status = "completed", !.results = TRUE,
                      !.completed_at = TRUE, !.progress = 100]
    ELSE [task EXCEPT !.status = "failed", !.error = TRUE,
                      !.completed_at = TRUE]

\* The task function ends; _run_task records the outcome, notifies and, if
\* there is nobody to notify, gives its slot back
TaskFuncEnds(t, outcome) ==
    /\ pcRun[t] = "executing"
    /\ fnOutcome' = [fnOutcome EXCEPT ![t] = outcome]
    /\ LET task == IF tasks[t].status # "absent"
                   THEN TerminalTask(tasks[t], outcome) ELSE tasks[t]
       IN  /\ tasks' = [tasks EXCEPT ![t] = task]
           /\ NotifyBegin(t, 0, task)
           /\ IF NotifyRuns(t, task)
              THEN /\ pcRun' = [pcRun EXCEPT ![t] = "end_notify"]
                   /\ UNCHANGED <<semaphore, active_tasks>>
              ELSE /\ pcRun' = [pcRun EXCEPT ![t] = "finished"]
                   /\ semaphore' = semaphore + 1
                   /\ active_tasks' = active_tasks - 1
    /\ UNCHANGED <<manager, websocket_connections, fnCalls, handler, broken,
                   regEarly>>
    /\ UNCHANGED otherThanTasks

TaskFuncReturns(t) == TaskFuncEnds(t, "returned")

\* for example ValueError("Unknown strategy") in run_backtest_task
TaskFuncRaises(t) == TaskFuncEnds(t, "raised")

\* unregister_websocket
Unregister(t, ws) ==
    LET list == websocket_connections[t]
        left == Without(list, {ws})
    IN  /\ websocket_connections' = [websocket_connections EXCEPT ![t] = left]
        /\ notifier' = [notifier EXCEPT ![t] =
               Orphaned(@, list # <<>> /\ left = <<>>)]

\* backtest_websocket accepts a client and register_websocket appends it to
\* the list and sends it the task as it is now
Register(ws) ==
    /\ manager = "backtest"
    /\ handler[ws] = "none"
    /\ websocket_connections' =
           [websocket_connections EXCEPT ![WatchedTask] = Append(@, ws)]
    /\ IF tasks[WatchedTask].status # "absent"
       THEN SendTo(ws, tasks[WatchedTask])
       ELSE UNCHANGED <<lastRecv, got100>>
    /\ handler' = [handler EXCEPT ![ws] = "polling"]
    /\ regEarly' = [regEarly EXCEPT ![ws] =
           tasks[WatchedTask].status \in {"pending", "running"}]
    /\ UNCHANGED <<manager, semaphore, active_tasks, tasks, pcRun, fnCalls,
                   fnOutcome, notifier, broken>>
    /\ UNCHANGED otherThanTasks

\* The handler's poll finds no task: it reports the error, unregisters and
\* closes
HandlerSeesMissing(ws) ==
    /\ handler[ws] = "polling"
    /\ tasks[WatchedTask].status = "absent"
    /\ Unregister(WatchedTask, ws)
    /\ handler' = [handler EXCEPT ![ws] = "closed"]
    /\ UNCHANGED <<manager, semaphore, active_tasks, tasks, pcRun, fnCalls,
                   fnOutcome, broken, lastRecv, got100, regEarly>>
    /\ UNCHANGED otherThanTasks

\* The handler's poll finds the task completed or failed: it sleeps 0.5 s
HandlerSeesTerminal(ws) ==
    /\ handler[ws] = "polling"
    /\ tasks[WatchedTask].status \in {"completed", "failed"}
    /\ handler' = [handler EXCEPT ![ws] = "linger"]
    /\ UNCHANGED <<manager, semaphore, active_tasks, tasks,
                   websocket_connections, pcRun, fnCalls, fnOutcome, notifier,
                   broken, lastRecv, got100, regEarly>>
    /\ UNCHANGED otherThanTasks

\* After the sleep the handler unregisters the websocket and closes it
HandlerLeaves(ws) ==
    /\ handler[ws] = "linger"
    /\ Unregister(WatchedTask, ws)
    /\ handler' = [handler EXCEPT ![ws] = "closed"]
    /\ UNCHANGED <<manager, semaphore, active_tasks, tasks, pcRun, fnCalls,
                   fnOutcome, broken, lastRecv, got100, regEarly>>
    /\ UNCHANGED otherThanTasks

\* The client of a websocket goes away: from now on send_json raises
SinkBreaks(ws) ==
    /\ handler[ws] \in {"polling", "linger"}
    /\ ~broken[ws]
    /\ broken' = [broken EXCEPT ![ws] = TRUE]
    /\ UNCHANGED <<manager, semaphore, active_tasks, tasks,
                   websocket_connections, pcRun, fnCalls, fnOutcome, notifier,
                   handler, lastRecv, got100, regEarly>>
    /\ UNCHANGED otherThanTasks

\* backtest_websocket has accepted the client, and the client goes away
\* before register_websocket sends it the task: that send raises
SinkBreaksBeforeRegister(ws) ==
    /\ manager = "backtest"
    /\ handler[ws] = "none"
    /\ ~broken[ws]
    /\ broken' = [broken EXCEPT ![ws] = TRUE]
    /\ UNCHANGED <<manager, semaphore, active_tasks, tasks,
                   websocket_connections, pcRun, fnCalls, fnOutcome, notifier,
                   handler, lastRecv, got100, regEarly>>
    /\ UNCHANGED otherThanTasks

\* Either task manager with tasks that report no progress and no websocket
\* client
SlotsNext ==
    \/ ConstructBacktestManager
    \/ ConstructOptimizationManager
    \/ \E t \in TaskIds : CreateTask(t)
    \/ \E t \in TaskIds : RunTaskStart(t)
    \/ \E t \in TaskIds : TaskFuncReturns(t)
    \/ \E t \in TaskIds : TaskFuncRaises(t)
    \/ \E t \in TaskIds : Expire(t)

\* The back-test task manager with one task and its websocket clients
FanoutNext ==
    \/ ConstructBacktestManager
    \/ CreateTask(WatchedTask)
    \/ RunTaskStart(WatchedTask)
    \/ RunNotifyStep(WatchedTask)
    \/ TaskFuncProgress(WatchedTask)
    \/ \E n \in NotifierIds : NotifyTaskStart(WatchedTask, n)
    \/ \E n \in NotifierIds : BackgroundNotifyStep(WatchedTask, n)
    \/ TaskFuncReturns(WatchedTask)
    \/ TaskFuncRaises(WatchedTask)
    \/ Expire(WatchedTask)
    \/ \E ws \in Sinks : Register(ws)
    \/ \E ws \in Sinks : HandlerSeesMissing(ws)
    \/ \E ws \in Sinks : HandlerSeesTerminal(ws)
    \/ \E ws \in Sinks : HandlerLeaves(ws)
    \/ \E ws \in Sinks : SinkBreaks(ws)

\* The same, with clients that go away at any time after the accept
SubscribersNext ==
    \/ FanoutNext
    \/ \E ws \in Sinks : SinkBreaksBeforeRegister(ws)

\* The back-test task manager with one task whose function reports any
\* progress values, and its websocket clients
ProgressNext ==
    \/ ConstructBacktestManager
    \/ CreateTask(WatchedTask)
    \/ RunTaskStart(WatchedTask)
    \/ RunNotifyStep(WatchedTask)
    \/ TaskFuncUpdates(WatchedTask)
    \/ \E n \in NotifierIds : NotifyTaskStart(WatchedTask, n)
    \/ \E n \in NotifierIds : BackgroundNotifyStep(WatchedTask, n)
    \/ TaskFuncReturns(WatchedTask)
    \/ TaskFuncRaises(WatchedTask)
    \/ \E ws \in Sinks : Register(ws)

\* Either task manager with tasks that live on while time passes
TtlNext ==
    \/ ConstructBacktestManager
    \/ ConstructOptimizationManager
    \/ Tick
    \/ \E t \in TaskIds : CreateTask(t)
    \/ \E t \in TaskIds : RunTaskStart(t)
    \/ \E t \in TaskIds : TaskFuncReturns(t)
    \/ \E t \in TaskIds : TaskFuncRaises(t)

(***************************************************************************)
(* Two back-tests over the same stored history (api/rest.py                *)
(* run_backtest_task, core/trading_engine.py run, _process_data,           *)
(* _handle_signal_direct, _record_equity, get_results).  Each task builds  *)
(* a strategy, a position manager and an engine of its own; the two runs   *)
(* advance independently of each other.                                    *)
(***************************************************************************)

\* Timestamps 1..MaxReplayTs of the stored history
MaxReplayTs == 3

Runs == {1, 2}
ReplayTss == 1..MaxReplayTs
ReplayCloses == {1, 2}
ReplayAtrs == {0, 1}

\* A seed-less strategy: what check_entry_signal and confirm_signal make of
\* a bar is a function of the bar
EntryRules == [ReplayCloses -> EntryVerdicts]

\* get_data_stream over a stored history that has a bar and an indicator for
\* every timestamp: sorted by timestamp, the bar of a timestamp first.  The
\* histories drawn have one atr14 throughout, 0 for an indicator without
HistoryOf(closes, atrs) ==
    [i \in 1..(2 * MaxReplayTs) |->
        IF i % 2 = 1
        THEN [kind |-> "kline", symbol |-> "BTCUSDT",
              timestamp |-> (i + 1) \div 2, value |-> closes[(i + 1) \div 2]]
        ELSE [kind |-> "indicator", symbol |-> "BTCUSDT",
              timestamp |-> i \div 2, value |-> atrs[i \div 2]]]

NoRequest == [submitted |-> FALSE, capital |-> 0, preset |-> "moderate",
              entry |-> [c \in ReplayCloses |-> None]]
NewStrategy ==
    [state |-> [s \in Symbols |->
                  [kline |-> NoKline, indicator |-> NoIndicator,
                   prev_indicator |-> NoIndicator]],
     positions |-> [s \in Symbols |-> FlatPosition]]
NoRun == [pc |-> "none", pos |-> 0,
          pm_positions |-> [s \in Symbols |-> NoPmPosition], balance |-> 0,
          signals |-> <<>>, trades |-> <<>>, equity_curve |-> <<>>]

ReplayInit ==
    /\ rp_history = <<>>
    /\ rp_request = NoRequest
    /\ rp_strategy = [k \in Runs |-> NewStrategy]
    /\ rp_engine = [r \in Runs |-> NoRun]

\* The history is in the store and the same request is submitted twice
SubmitBacktests ==
    /\ ~rp_request.submitted
    /\ \E closes \in [ReplayTss -> ReplayCloses], atr14 \in ReplayAtrs :
          rp_history' = HistoryOf(closes, [ts \in ReplayTss |-> atr14])
    /\ \E capital \in InitialCapitals, preset \in Presets,
          entry \in EntryRules :
          rp_request' = [submitted |-> TRUE, capital |-> capital,
                         preset |-> preset, entry |-> entry]
    /\ UNCHANGED <<rp_strategy, rp_engine>>
    /\ UNCHANGED otherThanReplay

\* run_backtest_task builds the strategy of the task: every run has a
\* strategy instance of its own
StrategyShared(r) == 1
StrategyOf(r) == r

\* run_backtest_task builds the position manager and the engine and calls
\* run()
RunStarts(r) ==
    /\ rp_request.submitted
    /\ rp_engine[r].pc = "none"
    /\ rp_engine' = [rp_engine EXCEPT ![r].pc = "running",
                                      ![r].balance = rp_request.capital]
    /\ UNCHANGED <<rp_history, rp_request, rp_strategy>>
    /\ UNCHANGED otherThanReplay

\* _handle_signal_direct: the engine of a run after the signal
ReplaySignal(sig, eng) ==
    LET params == PresetParams(rp_request.preset)
        after == HandleSignalDirect(sig, eng.pm_positions, eng.balance,
                                    params)
        held == eng.pm_positions[sig.symbol]
        done == [eng EXCEPT !.pm_positions = after.positions,
                            !.balance = after.balance]
    IN
    IF sig.action = "OPEN"
    THEN LET order_info == CalculateOrderSize(sig.price, sig.stop_loss,
                                              eng.pm_positions, eng.balance,
                                              params)
         IN  IF order_info.ok
             THEN [done EXCEPT !.signals = Append(@,
                      [timestamp |-> sig.timestamp, side |-> sig.side,
                       action |-> "OPEN", price |-> sig.price,
                       usdt_amount |-> order_info.usdt_amount, pnl |-> 0])]
             ELSE eng
    ELSE IF held.open /\ ~ClosePositionRaises(held)
         THEN [done EXCEPT
                  !.trades = Append(@,
                      [side |-> held.side, entry_time |-> held.entry_time,
                       exit_time |-> sig.timestamp,
                       entry_price |-> held.entry_price,
                       exit_price |-> sig.price,
                       pnl |-> Pnl(held, sig.price)]),
                  !.signals = Append(@,
                      [timestamp |-> sig.timestamp, side |-> sig.side,
                       action |-> "CLOSE", price |-> sig.price,
                       usdt_amount |-> held.usdt_amount,
                       pnl |-> Pnl(held, sig.price)])]
         ELSE eng

\* BaseStrategy.process once the symbol's state st is updated: the position
\* tracking of the strategy and the engine of the run after the call
ReplayDecide(s, st, pos, eng) ==
    LET kline == st.kline
        indicator == st.indicator
        verdict == rp_request.entry[kline.close]
    IN
    IF ~(StateComplete(st) /\ TimestampsAligned(kline, indicator))
    THEN [position |-> pos, engine |-> eng]
    ELSE IF pos.has_position
    THEN IF BaseExit(pos, kline.close, indicator.atr14)
         THEN [position |-> [pos EXCEPT !.has_position = FALSE,
                                        !.side = None],
               engine |-> ReplaySignal(
                   [action |-> "CLOSE", symbol |-> s, side |-> pos.side,
                    price |-> kline.close, timestamp |-> kline.ts,
                    stop_loss |-> 0], eng)]
         ELSE [position |-> [pos EXCEPT
                   !.highest_price =
                       IF kline.close > @ THEN kline.close ELSE @,
                   !.lowest_price =
                       IF kline.close < @ THEN kline.close ELSE @],
               engine |-> eng]
    ELSE IF verdict = None
    THEN [position |-> pos, engine |-> eng]
    ELSE [position |-> [has_position |-> TRUE, side |-> verdict,
                        entry_price |-> kline.close, entry_time |-> kline.ts,
                        highest_price |-> kline.close,
                        lowest_price |-> kline.close],
          engine |-> ReplaySignal(
              [action |-> "OPEN", symbol |-> s, side |-> verdict,
               price |-> kline.close, timestamp |-> kline.ts,
               stop_loss |-> CalculateStopLoss(kline.close, verdict,
                                               indicator.atr14)], eng)]

\* _record_equity; get_account_status divides by the initial balance, and
\* _process_data catches the ZeroDivisionError of an initial balance of 0
RecordEquity(eng, timestamp) ==
    IF rp_request.capital = 0
    THEN eng
    ELSE [eng EXCEPT !.equity_curve = Append(@,
             [timestamp |-> timestamp, balance |-> eng.balance,
              pnl |-> eng.balance - rp_request.capital])]

\* The loop of run(): the stream yields the next item and _process_data
\* passes it to the strategy; a bar is followed by _record_equity
ReplayItem(r) ==
    /\ rp_engine[r].pc = "running"
    /\ rp_engine[r].pos < Len(rp_history)
    /\ LET item == rp_history[rp_engine[r].pos + 1]
           k == StrategyOf(r)
           s == item.symbol
           old == rp_strategy[k].state[s]
           st == IF item.kind = "kline"
                 THEN [old EXCEPT !.kline = [ts |-> item.timestamp,
                                             close |-> item.value]]
                 ELSE [old EXCEPT
                          !.prev_indicator =
                              IF old.indicator.ts # NoTs
                              THEN old.indicator ELSE @,
                          !.indicator = [ts |-> item.timestamp,
                                         atr14 |-> item.value]]
           after == ReplayDecide(s, st, rp_strategy[k].positions[s],
                                 rp_engine[r])
           recorded == IF item.kind = "kline"
                       THEN RecordEquity(after.engine, item.timestamp)
                       ELSE after.engine
       IN  /\ rp_strategy' = [rp_strategy EXCEPT
                                 ![k].state[s] = st,
                                 ![k].positions[s] = after.position]
           /\ rp_engine' = [rp_engine EXCEPT ![r] =
                               [recorded EXCEPT !.pos = @ + 1]]
    /\ UNCHANGED <<rp_history, rp_request>>
    /\ UNCHANGED otherThanReplay

\* The stream is exhausted: run() returns
RunEnds(r) ==
    /\ rp_engine[r].pc = "running"
    /\ rp_engine[r].pos = Len(rp_history)
    /\ rp_engine' = [rp_engine EXCEPT ![r].pc = "done"]
    /\ UNCHANGED <<rp_history, rp_request, rp_strategy>>
    /\ UNCHANGED otherThanReplay

RECURSIVE Winning(_)
Winning(trades) ==
    IF trades = <<>> THEN 0
    ELSE (IF Head(trades).pnl > 0 THEN 1 ELSE 0) + Winning(Tail(trades))

\* get_results; get_account_status raises on an initial balance of 0
GetResults(r) ==
    LET eng == rp_engine[r]
    IN  IF rp_request.capital = 0
        THEN [raised |-> TRUE]
        ELSE [raised |-> FALSE,
              total_trades |-> Len(eng.trades),
              winning_trades |-> Winning(eng.trades),
              initial_balance |-> rp_request.capital,
              final_balance |-> eng.balance,
              total_pnl |-> eng.balance - rp_request.capital,
              trades |-> eng.trades,
              signals |-> eng.signals,
              equity_curve |-> eng.equity_curve]

ReplayNext ==
    \/ SubmitBacktests
    \/ \E r \in Runs : RunStarts(r)
    \/ \E r \in Runs : ReplayItem(r)
    \/ \E r \in Runs : RunEnds(r)


(***************************************************************************)
(* The position manager on its own (core/position_manager.py): OPEN and    *)
(* CLOSE requests against a book of several symbols.                       *)
(***************************************************************************)

\* Requests one position manager receives
MaxOrders == 3

SizingSymbols == {"BTCUSDT", "ETHUSDT", "SOLUSDT"}

\* SignalData.stop_loss in hundredths of the price 1: none, 50 % and 3 %
\* below the price
SizingStops == {0, 50, 97}

NoSizing == [called |-> FALSE, book |-> [s \in SizingSymbols |-> NoPmPosition],
             balance |-> 0, price |-> 0, stop_loss |-> 0, order |-> NoOrder]

SizingInit ==
    /\ sz_params = PresetParams("moderate")
    /\ sz_book = [s \in SizingSymbols |-> NoPmPosition]
    /\ sz_balance = 0
    /\ sz_orders = 0 - 1
    /\ sz_last = NoSizing

\* PositionManagerFactory.create_<preset>(initial_balance)
CreateManager ==
    /\ sz_orders = 0 - 1
    /\ sz_orders' = 0
    /\ \E capital \in InitialCapitals, preset \in Presets :
          /\ sz_params' = PresetParams(preset)
          /\ sz_balance' = capital
    /\ UNCHANGED <<sz_book, sz_last>>
    /\ UNCHANGED otherThanSizing

\* calculate_order_size and, for an admitted order, open_position
SizingOpen ==
    /\ sz_orders >= 0
    /\ sz_orders < MaxOrders
    /\ sz_orders' = sz_orders + 1
    /\ \E s \in SizingSymbols, stop_loss \in SizingStops :
          LET sig == [action |-> "OPEN", symbol |-> s, side |-> "LONG",
                      price |-> 1, timestamp |-> sz_orders + 1,
                      stop_loss |-> stop_loss]
              after == HandleSignalDirect(sig, sz_book, sz_balance, sz_params)
          IN  /\ sz_book' = after.positions
              /\ sz_balance' = after.balance
              /\ sz_last' = [called |-> TRUE, book |-> sz_book,
                             balance |-> sz_balance, price |-> 1,
                             stop_loss |-> stop_loss,
                             order |-> CalculateOrderSize(
                                 1, stop_loss, sz_book, sz_balance,
                                 sz_params)]
    /\ UNCHANGED sz_params
    /\ UNCHANGED otherThanSizing

\* close_position at the entry price, which returns the amount
SizingClose ==
    /\ sz_orders >= 0
    /\ sz_orders < MaxOrders
    /\ sz_orders' = sz_orders + 1
    /\ \E s \in SizingSymbols :
          /\ sz_book[s].open
          /\ LET sig == [action |-> "CLOSE", symbol |-> s,
                         side |-> sz_book[s].side, price |-> 1,
                         timestamp |-> sz_orders + 1, stop_loss |-> 0]
                 after == HandleSignalDirect(sig, sz_book, sz_balance,
                                             sz_params)
             IN  /\ sz_book' = after.positions
                 /\ sz_balance' = after.balance
    /\ UNCHANGED <<sz_params, sz_last>>
    /\ UNCHANGED otherThanSizing

SizingNext ==
    \/ CreateManager
    \/ SizingOpen
    \/ SizingClose


(***************************************************************************)
(* The manual cleanup of the task map (core/task_manager.py create_task,   *)
(* _run_task, cleanup_old_tasks), with the completion times the cleanup    *)
(* reads.                                                                  *)
(***************************************************************************)

\* int(time.time()) runs over 0..MaxCleanupClock
MaxCleanupClock == 3

CleanupTaskIds == {"t1", "t2"}
CleanupAges == {0, 1, 2}

\* watched: websocket_connections has a list for the task
AbsentTask == [status |-> "absent", completed_at |-> NoTs, watched |-> FALSE]
\* flip: changes with every call
NoCleanup == [ran |-> FALSE, flip |-> FALSE, age |-> 0, now |-> 0,
              returned |-> 0]

CleanupInit ==
    /\ cl_now = 0
    /\ cl_tasks = [t \in CleanupTaskIds |-> AbsentTask]
    /\ cl_last = NoCleanup

\* time.time() advances
CleanupClock ==
    /\ cl_now < MaxCleanupClock
    /\ cl_now' = cl_now + 1
    /\ UNCHANGED <<cl_tasks, cl_last>>
    /\ UNCHANGED otherThanCleanup

\* create_task stores the pending task; a websocket may be registered for it
CleanupCreateTask(t) ==
    /\ cl_tasks[t].status = "absent"
    /\ \E watched \in BOOLEAN :
          cl_tasks' = [cl_tasks EXCEPT ![t] =
              [status |-> "pending", completed_at |-> NoTs,
               watched |-> watched]]
    /\ UNCHANGED <<cl_now, cl_last>>
    /\ UNCHANGED otherThanCleanup

\* _run_task has the semaphore: the task is running
CleanupTaskRuns(t) ==
    /\ cl_tasks[t].status = "pending"
    /\ cl_tasks' = [cl_tasks EXCEPT ![t].status = "running"]
    /\ UNCHANGED <<cl_now, cl_last>>
    /\ UNCHANGED otherThanCleanup

\* _run_task: the task function returns or raises
CleanupTaskEnds(t) ==
    /\ cl_tasks[t].status = "running"
    /\ \E status \in {"completed", "failed"} :
          cl_tasks' = [cl_tasks EXCEPT ![t].status = status,
                                       ![t].completed_at = cl_now]
    /\ UNCHANGED <<cl_now, cl_last>>
    /\ UNCHANGED otherThanCleanup

\* cleanup_old_tasks: now - completed_at > max_age_seconds
OlderThanOrAsOld(time_now, completed_at, max_age_seconds) ==
    time_now - completed_at >= max_age_seconds
OlderThan(time_now, completed_at, max_age_seconds) ==
    time_now - completed_at > max_age_seconds

\* cleanup_old_tasks: the ids collected in to_delete
ToDelete(max_age_seconds) ==
    {t \in CleanupTaskIds :
        /\ cl_tasks[t].status \in {"completed", "failed"}
        /\ OlderThan(cl_now, cl_tasks[t].completed_at, max_age_seconds)}

\* cleanup_old_tasks(max_age_seconds): the collected tasks leave the map,
\* and their websocket lists with them
CleanupOldTasks ==
    /\ \E max_age_seconds \in CleanupAges :
          /\ cl_tasks' = [t \in CleanupTaskIds |->
                            IF t \in ToDelete(max_age_seconds)
                            THEN AbsentTask ELSE cl_tasks[t]]
          /\ cl_last' = [ran |-> TRUE, flip |-> ~cl_last.flip,
                         age |-> max_age_seconds,
                         now |-> cl_now,
                         returned |-> Cardinality(ToDelete(max_age_seconds))]
    /\ UNCHANGED cl_now
    /\ UNCHANGED otherThanCleanup

CleanupNext ==
    \/ CleanupClock
    \/ \E t \in CleanupTaskIds : CleanupCreateTask(t)
    \/ \E t \in CleanupTaskIds : CleanupTaskRuns(t)
    \/ \E t \in CleanupTaskIds : CleanupTaskEnds(t)
    \/ CleanupOldTasks


(***************************************************************************)
(* The progress tracker of a back-test run (core/progress_tracker.py       *)
(* ProgressTracker, built in api/rest.py run_backtest_task and driven by   *)
(* core/trading_engine.py run).  Time is counted in halves of              *)
(* min_interval.                                                           *)
(***************************************************************************)

\* total_items 0..MaxItems, max_updates 1..MaxTrackerUpdates, update() calls
\* and the clock of a run
MaxItems == 3
MaxTrackerUpdates == 2
MaxTrackerCalls == 4
MaxTrackerClock == 3

\* min_interval in halves of min_interval
MinInterval == 2

NoTracker == [made |-> FALSE, total_items |-> 1, max_updates |-> 1,
              update_threshold |-> 1, processed_items |-> 0,
              last_update_time |-> 0, last_progress |-> 0]
\* What the callback has been given: how often, and the last value
NoReports == [count |-> 0, value |-> Missing, throttled |-> FALSE]

TrackerInit ==
    /\ tr_clock = 0
    /\ tracker = NoTracker
    /\ tr_calls = 0
    /\ tr_reports = NoReports

\* ProgressTracker.__init__
CreateTracker ==
    /\ ~tracker.made
    /\ \E total_items \in 0..MaxItems, max_updates \in 1..MaxTrackerUpdates :
          tracker' = [made |-> TRUE,
                      total_items |-> IF total_items < 1 THEN 1
                                      ELSE total_items,
                      max_updates |-> max_updates,
                      update_threshold |->
                          IF total_items \div max_updates < 1 THEN 1
                          ELSE total_items \div max_updates,
                      processed_items |-> 0,
                      last_update_time |-> tr_clock,
                      last_progress |-> 0]
    /\ UNCHANGED <<tr_clock, tr_calls, tr_reports>>
    /\ UNCHANGED otherThanTracker

\* time.time() advances
TrackerClock ==
    /\ tr_clock < MaxTrackerClock
    /\ tr_clock' = tr_clock + 1
    /\ UNCHANGED <<tracker, tr_calls, tr_reports>>
    /\ UNCHANGED otherThanTracker

\* update(): min(100, int(processed_items / total_items * 100))
ProgressOf(processed_items, total_items) ==
    Min(100, (processed_items * 100) \div total_items)

\* update(): should_update
ShouldUpdateThrottled(time_passed, threshold_reached, progress_changed, is_complete) ==
    time_passed /\ (threshold_reached \/ progress_changed)
ShouldUpdate(time_passed, threshold_reached, progress_changed, is_complete) ==
    (time_passed /\ (threshold_reached \/ progress_changed)) \/ is_complete

\* update(items); an exception of the callback is caught and logged
TrackerUpdate ==
    /\ tracker.made
    /\ tr_calls < MaxTrackerCalls
    /\ tr_calls' = tr_calls + 1
    /\ \E items \in {1, 2} :
          LET processed_items == tracker.processed_items + items
              progress == ProgressOf(processed_items, tracker.total_items)
              time_passed ==
                  tr_clock - tracker.last_update_time >= MinInterval
              threshold_reached ==
                  processed_items % tracker.update_threshold = 0
              progress_changed == progress > tracker.last_progress
              is_complete == processed_items >= tracker.total_items
          IN  IF ShouldUpdate(time_passed, threshold_reached,
                              progress_changed, is_complete)
              THEN /\ tracker' = [tracker EXCEPT
                                     !.processed_items = processed_items,
                                     !.last_update_time = tr_clock,
                                     !.last_progress = progress]
                   /\ tr_reports' = [count |-> tr_reports.count + 1,
                                     value |-> progress,
                                     throttled |-> ~time_passed]
              ELSE /\ tracker' = [tracker EXCEPT
                                     !.processed_items = processed_items]
                   /\ UNCHANGED tr_reports
    /\ UNCHANGED tr_clock
    /\ UNCHANGED otherThanTracker

TrackerNext ==
    \/ CreateTracker
    \/ TrackerClock
    \/ TrackerUpdate


(***************************************************************************)
(* The calculator sets of the indicator node (nodes/indicator_node.py      *)
(* __init__, process, _process_incremental, _initialize_calculator,        *)
(* _process_traditional; core/node_base.py start).  Node.start runs one    *)
(* subscription task per input topic; the tasks interleave at the awaits.  *)
(* The Store is the environment: get_recent_klines raises or returns too   *)
(* few or enough bars.                                                     *)
(***************************************************************************)

\* Bars one subscription receives
MaxSeen == 3

\* f"{symbol}:{timeframe}" of the one series of the model
CalcKey(symbol, timeframe) == <<symbol, timeframe>>
CalcKeys == {CalcKey(s, tf) : s \in Symbols, tf \in Timeframes}

\* The subscriptions of the node: one per input topic
Subscriptions ==
    {KlineTopic(s, tf, mt) : s \in Symbols, tf \in Timeframes,
                             mt \in MarketTypes}

\* What get_recent_klines does in _initialize_calculator
StoreOutcomes == {"raises", "insufficient", "enough"}

\* writers: the subscriptions that have initialised, replaced or updated the
\* set; update_count: IndicatorCalculatorSet.update calls after the preheat
NoCalculatorSet == [present |-> FALSE, update_count |-> 0, writers |-> {}]

CalcInit ==
    /\ calculators = [k \in CalcKeys |-> NoCalculatorSet]
    /\ pcSub = [t \in Subscriptions |-> "idle"]
    /\ seen = [t \in Subscriptions |-> 0]
    /\ store_reads = 0

\* IndicatorNode.use_incremental, True unless the constructor is told
\* otherwise
UseIncremental == TRUE

\* _process_incremental: calc_key not in self.calculators
NeedsInitAlways(calc_set) == TRUE
NeedsInit(calc_set) == ~calc_set.present

\* calc_set.update(kline) by the subscription of topic
UpdateSet(calc_set, topic) ==
    [calc_set EXCEPT !.update_count = @ + 1, !.writers = @ \cup {topic}]

\* process(topic, data) up to its first await: with a calculator set for the
\* key the bar updates it, the indicator is saved and published; without
\* one _initialize_calculator asks the Store for the history.  The
\* traditional mode asks the Store on every bar.
BarArrives(topic) ==
    /\ pcSub[topic] = "idle"
    /\ seen[topic] < MaxSeen
    /\ seen' = [seen EXCEPT ![topic] = @ + 1]
    /\ LET calc_key == CalcKey(topic[2], topic[3])
       IN  IF UseIncremental /\ ~NeedsInit(calculators[calc_key])
           THEN /\ calculators' = [calculators EXCEPT ![calc_key] =
                                      UpdateSet(@, topic)]
                /\ UNCHANGED <<pcSub, store_reads>>
           ELSE /\ pcSub' = [pcSub EXCEPT ![topic] = "querying"]
                /\ store_reads' = store_reads + 1
                /\ UNCHANGED calculators
    /\ UNCHANGED otherThanCalc

\* get_recent_klines returns or raises: with enough bars a fresh set is
\* preheated and stored under the key, whatever is stored there, and the
\* bar updates it; otherwise process() returns without an indicator
QueryReturns(topic) ==
    /\ pcSub[topic] = "querying"
    /\ pcSub' = [pcSub EXCEPT ![topic] = "idle"]
    /\ LET calc_key == CalcKey(topic[2], topic[3])
       IN  \E outcome \in StoreOutcomes :
              IF outcome = "enough" /\ UseIncremental
              THEN calculators' = [calculators EXCEPT ![calc_key] =
                       UpdateSet([present |-> TRUE, update_count |-> 0,
                                  writers |-> {topic}], topic)]
              ELSE UNCHANGED calculators
    /\ UNCHANGED <<seen, store_reads>>
    /\ UNCHANGED otherThanCalc

CalcNext ==
    \/ \E topic \in Subscriptions : BarArrives(topic)
    \/ \E topic \in Subscriptions : QueryReturns(topic)


(***************************************************************************)
(* The data-integrity service (services/data_integrity.py                  *)
(* check_and_repair_all, detect_kline_gaps, _merge_to_ranges,              *)
(* detect_indicator_gaps, backfill_klines, backfill_indicators) for one    *)
(* symbol and timeframe.  The Store and the exchange are the environment.  *)
(***************************************************************************)

\* Timestamps 0..MaxGapTime, in seconds
MaxGapTime == 5

\* _get_interval_seconds of the model's timeframe
IntervalSeconds == 2

GapTimes == 0..MaxGapTime

\* What one repair of the loops does: it fills, it has nothing to fill (no
\* bars returned, too few preceding bars) or it raises
RepairOutcomes == {"filled", "nothing", "raises"}

\* sorted(timestamps)
RECURSIVE SortedSeq(_)
SortedSeq(S) ==
    IF S = {} THEN <<>>
    ELSE LET least == CHOOSE t \in S : \A u \in S : t <= u
         IN  <<least>> \o SortedSeq(S \ {least})

\* _merge_to_ranges: ts <= end + interval * 1.5
ContinuousWithin3(ts, end, interval) == 2 * ts <= 2 * end + 5 * interval
Continuous(ts, end, interval) == 2 * ts <= 2 * end + 3 * interval

\* The loop of _merge_to_ranges over timestamps[1:]
RECURSIVE MergeFrom(_, _, _, _, _)
MergeFrom(rest, start, end, ranges, interval) ==
    IF rest = <<>>
    THEN Append(ranges, <<start, end>>)
    ELSE LET ts == Head(rest)
         IN  IF Continuous(ts, end, interval)
             THEN MergeFrom(Tail(rest), start, ts, ranges, interval)
             ELSE MergeFrom(Tail(rest), ts, ts,
                            Append(ranges, <<start, end>>), interval)

MergeToRanges(timestamps, interval) ==
    IF timestamps = {} THEN <<>>
    ELSE LET sorted == SortedSeq(timestamps)
         IN  MergeFrom(Tail(sorted), sorted[1], sorted[1], <<>>, interval)

\* detect_kline_gaps: the grid from the aligned start_time to end_time
ExpectedTimestamps(start_time, end_time, interval) ==
    {t \in ((start_time \div interval) * interval)..end_time :
        t % interval = 0}

\* detect_kline_gaps for the bars the Store returns
DetectKlineGaps(existing_timestamps, start_time, end_time, interval) ==
    IF existing_timestamps = {}
    THEN << <<start_time, end_time>> >>
    ELSE MergeToRanges(
             ExpectedTimestamps(start_time, end_time, interval)
                 \ existing_timestamps, interval)

NoCheck == [pc |-> "idle", stored |-> {}, start_time |-> 0, end_time |-> 0,
            gaps |-> <<>>, missing |-> <<>>, idx |-> 0, attempted |-> 0,
            failed |-> {}, logged |-> 0]

IntegrityInit == check = NoCheck

\* check_and_repair_all with auto_fix: detect_kline_gaps reads the bars and
\* the clock
CheckStarts ==
    /\ check.pc = "idle"
    /\ \E stored \in SUBSET GapTimes, start_time \in GapTimes,
          end_time \in GapTimes :
          /\ start_time <= end_time
          /\ check' = [NoCheck EXCEPT
                          !.pc = "klines", !.stored = stored,
                          !.start_time = start_time, !.end_time = end_time,
                          !.gaps = DetectKlineGaps(stored, start_time,
                                                   end_time, IntervalSeconds)]
    /\ UNCHANGED otherThanIntegrity

\* The for loops of backfill_klines and backfill_indicators: where the loop
\* goes after the repair of item idx has raised
AfterFailureAborts(idx, length) == length
AfterFailure(idx, length) == idx + 1

\* One pass of a repair loop over a list of the given length
RepairOne(length) ==
    \E outcome \in RepairOutcomes :
        check' = [check EXCEPT
            !.attempted = @ + 1,
            !.failed = IF outcome = "raises"
                       THEN @ \cup {<<check.pc, check.idx + 1>>}
                       ELSE @,
            !.logged = IF outcome = "raises" THEN @ + 1 ELSE @,
            !.idx = IF outcome = "raises"
                    THEN AfterFailure(check.idx, length)
                    ELSE check.idx + 1]

\* backfill_klines: the next range is fetched from the exchange and saved
BackfillRange ==
    /\ check.pc = "klines"
    /\ check.idx < Len(check.gaps)
    /\ RepairOne(Len(check.gaps))
    /\ UNCHANGED otherThanIntegrity

\* backfill_klines has returned; detect_indicator_gaps lists the bars of the
\* window that have no indicator
DetectIndicatorGaps ==
    /\ check.pc = "klines"
    /\ check.idx >= Len(check.gaps)
    /\ \E cutoff \in GapTimes :
          check' = [check EXCEPT
              !.pc = "indicators",
              !.missing = SortedSeq({t \in check.stored :
                                        /\ t >= check.start_time
                                        /\ t >= cutoff}),
              !.idx = 0]
    /\ UNCHANGED otherThanIntegrity

\* backfill_indicators: the indicator of the next timestamp is computed and
\* saved
BackfillIndicator ==
    /\ check.pc = "indicators"
    /\ check.idx < Len(check.missing)
    /\ RepairOne(Len(check.missing))
    /\ UNCHANGED otherThanIntegrity

\* backfill_indicators has returned: the summary is logged
CheckEnds ==
    /\ check.pc = "indicators"
    /\ check.idx >= Len(check.missing)
    /\ check' = [check EXCEPT !.pc = "done"]
    /\ UNCHANGED otherThanIntegrity

IntegrityNext ==
    \/ CheckStarts
    \/ BackfillRange
    \/ DetectIndicatorGaps
    \/ BackfillIndicator
    \/ CheckEnds


(***************************************************************************)
(* The klines table of the Store (core/database.py KlineDB,                *)
(* bulk_insert_klines, get_recent_klines) for one symbol and timeframe.    *)
(***************************************************************************)

\* bulk_insert_klines calls of a behaviour
MaxInserts == 2

\* Bars of a batch
MaxBatch == 2

RowTimestamps == {1, 2}
RowCloses == {1, 2}

\* KlineData of the symbol and timeframe: timestamp, market_type, close
BatchBars ==
    [timestamp : RowTimestamps, market_type : MarketTypes, close : RowCloses]

Batches == UNION {[1..n -> BatchBars] : n \in 1..MaxBatch}

\* The key of a bar: (symbol, timeframe, timestamp, market)
BarKeys == RowTimestamps \X MarketTypes
BarKey(bar) == <<bar.timestamp, bar.market_type>>

NoBar == [inserted |-> FALSE, close |-> 0]

StoreInit ==
    /\ db_klines = {}
    /\ db_latest = [key \in BarKeys |-> NoBar]
    /\ db_calls = 0

\* KlineDB: the columns a KlineData is stored in (no market_type column)
KlineRow(id, bar) == [id |-> id, timestamp |-> bar.timestamp, close |-> bar.close]

\* The rows the session holds after session.add of every bar of the batch
AddedRows(rows, klines) ==
    rows \cup {KlineRow(Cardinality(rows) + i, klines[i]) : i \in DOMAIN klines}

\* idx_klines_lookup, unique on (symbol, timeframe, timestamp)
UniqueIndexHolds(rows) ==
    \A r1 \in rows, r2 \in rows : r1.timestamp = r2.timestamp => r1 = r2

\* bulk_insert_klines: every bar is added to the session and the session is
\* committed; a commit that raises is rolled back and 0 is returned
BulkInsertKlines ==
    /\ db_calls < MaxInserts
    /\ db_calls' = db_calls + 1
    /\ \E klines \in Batches :
          LET added == AddedRows(db_klines, klines)
          IN  /\ db_klines' = IF UniqueIndexHolds(added) THEN added
                              ELSE db_klines
              /\ db_latest' =
                     [key \in BarKeys |->
                         LET of_key == {i \in DOMAIN klines :
                                           BarKey(klines[i]) = key}
                         IN  IF of_key = {} THEN db_latest[key]
                             ELSE [inserted |-> TRUE,
                                   close |-> klines[CHOOSE i \in of_key :
                                       \A j \in of_key : j <= i].close]]
    /\ UNCHANGED otherThanStore

\* get_recent_klines(symbol, timeframe, limit): the rows of the series,
\* latest first, cut to limit, in chronological order
RECURSIVE RowsDescending(_)
RowsDescending(rows) ==
    IF rows = {} THEN <<>>
    ELSE LET latest == CHOOSE r \in rows : \A q \in rows :
                           \/ q.timestamp < r.timestamp
                           \/ (q.timestamp = r.timestamp /\ q.id <= r.id)
         IN  <<latest>> \o RowsDescending(rows \ {latest})

Reversed(seq) == [i \in 1..Len(seq) |-> seq[Len(seq) + 1 - i]]

GetRecentKlines(limit) ==
    LET rows == RowsDescending(db_klines)
    IN  Reversed(SubSeq(rows, 1, Min(limit, Len(rows))))

StoreNext == BulkInsertKlines


(***************************************************************************)
(* The incremental simple moving average (indicators/calculators.py        *)
(* MACalculator).  Prices are whole numbers, which floats hold exactly; a  *)
(* returned mean sum / period is kept as the fraction num / den.           *)
(***************************************************************************)

\* update() calls of a behaviour
MaxFeed == 7

Periods == {1, 2, 3, 5}
SmallPrices == {1, 2, 4}

\* The closes of test_ma_calculator
TestPrices == <<100, 102, 101, 103, 105, 104, 106>>

NoCalculator == [period |-> 0, values |-> <<>>, sum |-> 0]

\* update() returned None
Unknown == [known |-> FALSE, num |-> 0, den |-> 1]
Mean(sum, period) == [known |-> TRUE, num |-> sum, den |-> period]

MAInit ==
    /\ ma = NoCalculator
    /\ ma_prices = <<>>
    /\ ma_results = <<>>

\* MACalculator(period)
CreateMA ==
    /\ ma = NoCalculator
    /\ \E period \in Periods :
          ma' = [period |-> period, values |-> <<>>, sum |-> 0]
    /\ UNCHANGED <<ma_prices, ma_results>>
    /\ UNCHANGED otherThanMA

\* deque(maxlen=period).append
DequeAppend(values, maxlen, price) ==
    IF Len(values) = maxlen THEN Append(Tail(values), price)
    ELSE Append(values, price)

\* update(): len(self.values) < self.period
NotEnoughOrFull(values, period) == Len(values) <= period
NotEnough(values, period) == Len(values) < period

\* update(price)
MAUpdate ==
    /\ ma # NoCalculator
    /\ Len(ma_prices) < MaxFeed
    /\ \E price \in SmallPrices \cup
                    {TestPrices[i] : i \in {Len(ma_prices) + 1}
                                          \cap DOMAIN TestPrices} :
          LET sum1 == IF Len(ma.values) = ma.period
                      THEN ma.sum - ma.values[1] ELSE ma.sum
              values == DequeAppend(ma.values, ma.period, price)
              sum == sum1 + price
          IN  /\ ma' = [ma EXCEPT !.values = values, !.sum = sum]
              /\ ma_prices' = Append(ma_prices, price)
              /\ ma_results' =
                     Append(ma_results,
                            IF NotEnough(values, ma.period) THEN Unknown
                            ELSE Mean(sum, ma.period))
    /\ UNCHANGED otherThanMA

MANext == CreateMA \/ MAUpdate


(***************************************************************************)
(* A back-test of one strategy over several symbols, signal by signal      *)
(* (nodes/strategies/base_strategy.py process, core/trading_engine.py      *)
(* _handle_signal_direct, core/position_manager.py): the strategy's        *)
(* position flags beside the book of the position manager.                 *)
(***************************************************************************)

\* Signals of a back-test
MaxSignals == 4

BookPrices == {1, 2}

\* SignalData.stop_loss in hundredths: none, and 3 % below the price 1
BookStops == {0, 97}

\* initial_balance before the engine exists
NoBalance == 0 - 1

BookInit ==
    /\ bk_params = PresetParams("moderate")
    /\ bk_initial = NoBalance
    /\ bk_balance = 0
    /\ bk_book = [s \in SizingSymbols |-> NoPmPosition]
    /\ bk_flags = [s \in SizingSymbols |-> FALSE]
    /\ bk_trades = <<>>
    /\ bk_signals = 0

\* TradingEngine with PositionManagerFactory.create_<preset>(capital)
BookCreate ==
    /\ bk_initial = NoBalance
    /\ \E capital \in InitialCapitals, preset \in Presets :
          /\ bk_params' = PresetParams(preset)
          /\ bk_initial' = capital
          /\ bk_balance' = capital
    /\ UNCHANGED <<bk_book, bk_flags, bk_trades, bk_signals>>
    /\ UNCHANGED otherThanBook

\* process() for a symbol without a position: the entry signal is confirmed,
\* the strategy marks the symbol and hands the OPEN to the engine
BookEntry ==
    /\ bk_initial # NoBalance
    /\ bk_signals < MaxSignals
    /\ bk_signals' = bk_signals + 1
    /\ \E s \in SizingSymbols, price \in BookPrices, stop_loss \in BookStops,
          side \in {"LONG", "SHORT"} :
          /\ ~bk_flags[s]
          /\ bk_flags' = [bk_flags EXCEPT ![s] = TRUE]
          /\ LET sig == [action |-> "OPEN", symbol |-> s, side |-> side,
                         price |-> price, timestamp |-> bk_signals + 1,
                         stop_loss |-> stop_loss]
                 after == HandleSignalDirect(sig, bk_book, bk_balance,
                                             bk_params)
             IN  /\ bk_book' = after.positions
                 /\ bk_balance' = after.balance
    /\ UNCHANGED <<bk_params, bk_initial, bk_trades>>
    /\ UNCHANGED otherThanBook

\* process() for a symbol in position: the exit signal clears the mark and
\* the CLOSE is handed to the engine, which records the trade
BookExit ==
    /\ bk_initial # NoBalance
    /\ bk_signals < MaxSignals
    /\ bk_signals' = bk_signals + 1
    /\ \E s \in SizingSymbols, price \in BookPrices :
          /\ bk_flags[s]
          /\ bk_flags' = [bk_flags EXCEPT ![s] = FALSE]
          /\ LET sig == [action |-> "CLOSE", symbol |-> s,
                         side |-> bk_book[s].side, price |-> price,
                         timestamp |-> bk_signals + 1, stop_loss |-> 0]
                 after == HandleSignalDirect(sig, bk_book, bk_balance,
                                             bk_params)
                 pos == bk_book[s]
             IN  /\ bk_book' = after.positions
                 /\ bk_balance' = after.balance
                 /\ bk_trades' = IF pos.open /\ ~ClosePositionRaises(pos)
                                 THEN Append(bk_trades, Pnl(pos, price))
                                 ELSE bk_trades
    /\ UNCHANGED <<bk_params, bk_initial>>
    /\ UNCHANGED otherThanBook

BookNext ==
    \/ BookCreate
    \/ BookEntry
    \/ BookExit


(***************************************************************************)
(* The start of the producer over a Store that earlier runs have filled    *)
(* (nodes/kline_node.py initialize_cursors).                               *)
(***************************************************************************)

\* int(time.time()) runs over 1..MaxCursorTime while the node starts
MaxCursorTime == 3

CursorInit ==
    /\ ci_now = 1
    /\ ci_store = [k \in Keys |-> {}]
    /\ ci_left = KeyOrder
    /\ ci_cursor = [k \in Keys |-> NoTs]

\* An earlier run of the node has persisted a bar of a key
EarlierRunPersisted ==
    /\ ci_left = KeyOrder
    /\ \E k \in Keys, ts \in 1..ci_now :
          /\ ts \notin ci_store[k]
          /\ ci_store' = [ci_store EXCEPT ![k] = @ \cup {ts}]
    /\ UNCHANGED <<ci_now, ci_left, ci_cursor>>
    /\ UNCHANGED otherThanCursor

CursorClock ==
    /\ ci_now < MaxCursorTime
    /\ ci_now' = ci_now + 1
    /\ UNCHANGED <<ci_store, ci_left, ci_cursor>>
    /\ UNCHANGED otherThanCursor

\* initialize_cursors, one iteration of the loop over the keys: the first
\* statement of the try body, db.get_last_kline_time(symbol, timeframe,
\* market_type), raises TypeError and the except branch sets the cursor
CursorInitialize ==
    /\ ci_left # <<>>
    /\ GetLastKlineTimeRaises
    /\ ci_cursor' = [ci_cursor EXCEPT ![Head(ci_left)] = ExceptCursor(ci_now)]
    /\ ci_left' = Tail(ci_left)
    /\ UNCHANGED <<ci_now, ci_store>>
    /\ UNCHANGED otherThanCursor

CursorNext ==
    \/ EarlierRunPersisted
    \/ CursorClock
    \/ CursorInitialize


(***************************************************************************)
(* The bars one calculator set is given (nodes/indicator_node.py           *)
(* _process_incremental, _initialize_calculator; indicators/calculators.py *)
(* IndicatorCalculatorSet.update): the preheat history read from the Store *)
(* and the bars of the series as the producer publishes them.              *)
(***************************************************************************)

\* Bar timestamps 1..MaxAppliedTs
MaxAppliedTs == 4

\* Bars one calculator set is given in a behaviour
MaxApplied == 4

NoAppliedSet == [present |-> FALSE, applied |-> <<>>]

AppliedInit ==
    /\ ap_stored = {}
    /\ ap_published = NoTs
    /\ ap_set = NoAppliedSet

\* The producer's flush persists a bar it has published
PublishedBarPersisted ==
    /\ \E ts \in 1..ap_published :
          /\ ts \notin ap_stored
          /\ ap_stored' = ap_stored \cup {ts}
    /\ UNCHANGED <<ap_published, ap_set>>
    /\ UNCHANGED otherThanApplied

\* The producer publishes the bar at its cursor again, or a later bar, and
\* process() of the indicator node runs for it in the incremental mode:
\* the set is preheated if the series has none, then updated with the bar
AppliedBarArrives ==
    /\ Len(ap_set.applied) < MaxApplied
    /\ \E ts \in 1..MaxAppliedTs, outcome \in StoreOutcomes :
          /\ ts >= ap_published
          /\ ap_published' = ts
          /\ IF NeedsInit(ap_set)
             THEN IF outcome = "enough" /\ ap_stored # {}
                  THEN ap_set' =
                          [present |-> TRUE,
                           applied |-> Append(SortedSeq(ap_stored), ts)]
                  ELSE UNCHANGED ap_set
             ELSE ap_set' = [ap_set EXCEPT !.applied = Append(@, ts)]
    /\ UNCHANGED ap_stored
    /\ UNCHANGED otherThanApplied

AppliedNext ==
    \/ PublishedBarPersisted
    \/ AppliedBarArrives


(***************************************************************************)
(* The live data source (core/data_source.py LiveDataSource;               *)
(* core/message_bus.py MessageBus.subscribe).  MessageBus.subscribe        *)
(* subscribes and then runs the listen loop of its pubsub object inside    *)
(* the call: it returns only by raising.                                   *)
(***************************************************************************)

\* Messages published while the source runs
MaxLivePublished == 3

LiveSymbolLists == {<<"BTCUSDT">>, <<"BTCUSDT", "ETHUSDT">>}
LivePayloads == {1, 2}

\* The subjects get_data_stream is to subscribe to for a list of symbols
RequestedTopics(symbols) ==
    UNION {{StreamKlineTopic(symbols[i], "1h"),
            IndicatorTopic(symbols[i], "1h")} : i \in DOMAIN symbols}

LiveMessages ==
    [topic : RequestedTopics(<<"BTCUSDT", "ETHUSDT">>), data : LivePayloads]

LiveInit ==
    /\ lv_pc = "idle"
    /\ lv_symbols = <<>>
    /\ lv_subscribed = {}
    /\ lv_sent = <<>>
    /\ lv_queue = <<>>
    /\ lv_yielded = <<>>

\* get_data_stream(symbols, timeframe) is iterated: the first statement of
\* the loop over the symbols awaits bus.subscribe(kline_topic, handler),
\* which subscribes its pubsub object and stays in "async for message in
\* pubsub.listen()".  The statements after that await (the subscription of
\* the indicator subject, the other symbols, the loop that reads the queue
\* and yields) wait for the call to return.
LiveStart ==
    /\ lv_pc = "idle"
    /\ \E symbols \in LiveSymbolLists :
          /\ lv_symbols' = symbols
          /\ lv_subscribed' = {StreamKlineTopic(symbols[1], "1h")}
    /\ lv_pc' = "listening"
    /\ UNCHANGED <<lv_sent, lv_queue, lv_yielded>>
    /\ UNCHANGED otherThanLive

\* A message is published on a subject; the listen loop of a pubsub object
\* subscribed to it calls _data_handler, which puts it into the queue
LivePublish ==
    /\ lv_pc = "listening"
    /\ Len(lv_sent) < MaxLivePublished
    /\ \E m \in LiveMessages :
          /\ lv_sent' = Append(lv_sent, m)
          /\ lv_queue' = IF m.topic \in lv_subscribed
                         THEN Append(lv_queue, <<m.topic, m.data>>)
                         ELSE lv_queue
    /\ UNCHANGED <<lv_pc, lv_symbols, lv_subscribed, lv_yielded>>
    /\ UNCHANGED otherThanLive

\* The connection of the pubsub object fails: listen() raises, subscribe
\* logs and re-raises, and the exception ends get_data_stream
LiveListenRaises ==
    /\ lv_pc = "listening"
    /\ lv_pc' = "raised"
    /\ lv_subscribed' = {}
    /\ UNCHANGED <<lv_symbols, lv_sent, lv_queue, lv_yielded>>
    /\ UNCHANGED otherThanLive

LiveNext ==
    \/ LiveStart
    \/ LivePublish
    \/ LiveListenRaises


vars == <<coreVars, extraVars>>

BusInit == bus = [k \in Keys |-> <<>>]

TtlInit ==
    /\ timer = 0
    /\ expires = [t \in TaskIds |-> NoTs]

Init ==
    /\ ProducerInit /\ EngineInit /\ TaskInit /\ TtlInit /\ BusInit
    /\ RuntimeInit /\ StreamInit /\ ReplayInit /\ SizingInit
    /\ CleanupInit /\ TrackerInit /\ CalcInit /\ IntegrityInit
    /\ StoreInit
    /\ MAInit
    /\ BookInit
    /\ CursorInit
    /\ AppliedInit
    /\ LiveInit

SpecTtl == Init /\ [][TtlNext]_vars

SpecSlots == Init /\ [][SlotsNext]_vars

SpecFanout == Init /\ [][FanoutNext]_vars

SpecProgress == Init /\ [][ProgressNext]_vars

SpecProducer == Init /\ [][ProducerNext]_vars

SpecShutdown == Init /\ [][ShutdownNext]_vars

SpecPublish == Init /\ [][PublishNext]_vars

SpecEngine == Init /\ [][EngineNext]_vars

SpecRuntime == Init /\ [][RuntimeNext]_vars

SpecStream == Init /\ [][StreamNext]_vars

SpecReplay == Init /\ [][ReplayNext]_vars

SpecSizing == Init /\ [][SizingNext]_vars

SpecSubscribers == Init /\ [][SubscribersNext]_vars

SpecCleanup == Init /\ [][CleanupNext]_vars

SpecTracker == Init /\ [][TrackerNext]_vars

SpecCalculators == Init /\ [][CalcNext]_vars

SpecIntegrity == Init /\ [][IntegrityNext]_vars

SpecStore == Init /\ [][StoreNext]_vars

SpecMA == Init /\ [][MANext]_vars

SpecBook == Init /\ [][BookNext]_vars

SpecCursors == Init /\ [][CursorNext]_vars

SpecApplied == Init /\ [][AppliedNext]_vars

SpecLive == Init /\ [][LiveNext]_vars

\* The event loop runs every coroutine that can run; a connection that
\* does not fail is not made to fail
FairSpecLive ==
    /\ SpecLive
    /\ WF_vars(LiveStart)
    /\ WF_vars(LivePublish)


(***************************************************************************)
(* Properties of the bar producer                                          *)
(***************************************************************************)

\* C1: the memory cursor of a key never decreases: every write stores a
\* value greater than or equal to the one it replaces.
C1_CursorMonotone ==
    [][\A k \in Keys :
          memory_cursor[k] # NoTs => memory_cursor'[k] >= memory_cursor[k]]_vars

\* An incremental fetch has moved a cursor past the value of initialisation
\* (which is at most the clock, and the clock stands still afterwards)
C1_Witness ==
    /\ phase = "running"
    /\ \E k \in Keys : memory_cursor[k] > now /\ pcFetch[k] = "idle"

\* C2: the bars of a key stay in the order of their arrival: in the write
\* buffer, in the batch handed to the Store, and the batch precedes whatever
\* the buffer holds; after a flush whose attempts all failed the buffer holds
\* the bars of the batch in their order, ahead of later bars.
C2_BufferOrder ==
    \A k \in Keys :
        /\ IdsIncreasing(write_buffer[k])
        /\ IdsIncreasing(flushJob[k].batch)
        /\ \A i \in 1..Len(flushJob[k].batch), j \in 1..Len(write_buffer[k]) :
              flushJob[k].batch[i].id < write_buffer[k][j].id

\* A flush of two bars has failed on every attempt and the bars are back in
\* the buffer
C2_Witness ==
    /\ stats.flush_failures > 0
    /\ \E k \in Keys : flushJob[k].st = "idle" /\ Len(write_buffer[k]) >= 2

\* C3: publishing never waits for persistence: the producer loop, which
\* publishes the bars of the next tick once every fetch task of this tick has
\* returned, is never held up only by fetch tasks that wait for a Store
\* write, a flush retry or a retry backoff.
C3_PublishNeverWaitsForStore ==
    ~ ( /\ \E k \in Keys : pcFetch[k] \in {"want_lock", "flushing"}
        /\ \A k \in Keys : pcFetch[k] \in {"idle", "want_lock", "flushing"}
        /\ \E k \in Keys : flushJob[k].st \in {"write", "backoff"} )

\* C4: once the cursors are initialised, _fetch_incremental makes no
\* get_last_kline_time call.
C4_ZeroDbSteadyState ==
    phase = "running" => lastTsQueries = 0

\* The producer has run ticks from the cursors in memory
C4_Witness ==
    /\ phase = "running"
    /\ stats.total_published > 0
    /\ \A k \in Keys : memory_cursor[k] # NoTs


(***************************************************************************)
(* Properties of the strategy runtime and the position manager             *)
(***************************************************************************)

\* C5: the strategy runtime evaluates its decision pipeline (exit or entry
\* checks) for a symbol only when a bar, a current indicator and a previous
\* indicator are present and the bar's timestamp equals the current
\* indicator's timestamp.
C5_EvaluatesOnlyAligned ==
    evaluated.ran =>
        /\ evaluated.kline # NoTs
        /\ evaluated.indicator # NoTs
        /\ evaluated.prev_indicator # NoTs
        /\ evaluated.kline = evaluated.indicator

\* The pipeline has been evaluated for a bar that follows a bar without an
\* indicator of its own
C5_Witness ==
    /\ evaluated.ran
    /\ evaluated.prev_indicator + 1 < evaluated.indicator

\* C6: at most one open position per (engine, symbol): the strategy never
\* opens a position for a symbol that is in position, and the position
\* manager never records a position for a symbol that already has one.
C6_AtMostOnePosition ==
    [][\A s \in Symbols :
          /\ (positions[s].has_position /\ positions'[s].has_position)
                => /\ positions'[s].entry_time = positions[s].entry_time
                   /\ positions'[s].side = positions[s].side
          /\ (pm_positions[s].open /\ pm_positions'[s].open)
                => pm_positions'[s] = pm_positions[s]]_vars


(***************************************************************************)
(* Properties of the task manager                                          *)
(***************************************************************************)

\* C7: each subscriber of a task receives notifications whose progress
\* values are non-decreasing in the order received, under every interleaving
\* of progress updates, status changes, registrations and fan-out sends.
C7_ProgressNonDecreasing ==
    [][\A ws \in Sinks : lastRecv'[ws] >= lastRecv[ws]]_vars

\* C8: when a task has completed successfully and every notification of it
\* has run to its end, each subscriber that registered before completion, is
\* still registered and whose sink has not failed has received a
\* notification with progress = 100.
C8_CompletionDelivered ==
    \A t \in TaskIds :
        ( /\ tasks[t].status = "completed"
          /\ pcRun[t] = "finished"
          /\ \A n \in NotifierIds : notifier[t][n].st = "idle" )
        => \A i \in 1..Len(websocket_connections[t]) :
              LET ws == websocket_connections[t][i]
              IN  (regEarly[ws] /\ ~broken[ws]) => got100[ws]

\* The tasks whose _run_task holds a slot of the semaphore
SlotHolders ==
    {t \in TaskIds : pcRun[t] \in {"start_notify", "executing", "end_notify"}}

\* C9: at most max_concurrent task functions of one task manager execute at
\* any time (3 for back-test, 2 for optimization), and a pending task stays
\* pending (unless the cache drops it) in every step taken while all slots
\* are held.
C9_ConcurrencyLimit ==
    /\ [](manager # "none" =>
              Cardinality(SlotHolders) <= MaxConcurrent(manager))
    /\ [][\A t \in TaskIds :
             ( /\ tasks[t].status = "pending"
               /\ Cardinality(SlotHolders) >= MaxConcurrent(manager) )
             => tasks'[t].status \in {"pending", "absent"}]_vars

\* Three back-test tasks execute and a fourth one waits in status pending
C9_Witness ==
    /\ manager = "backtest"
    /\ Cardinality({t \in TaskIds : pcRun[t] = "executing"}) = 3
    /\ \E t \in TaskIds : tasks[t].status = "pending" /\ pcRun[t] = "wait_sem"

\* The status changes of the task lifecycle; the cache may drop a task in
\* any status
LifecycleSteps ==
    {<<"absent", "pending">>, <<"pending", "running">>,
     <<"running", "completed">>, <<"running", "failed">>,
     <<"pending", "absent">>, <<"running", "absent">>,
     <<"completed", "absent">>, <<"failed", "absent">>}

\* C10: a task goes from pending to running with started_at stamped and then
\* to exactly one terminal status: completed, with the result stored and
\* progress = 100, if the task function returned; failed, with the error
\* stored, if it raised.  Once _run_task is over the task (if the cache still
\* holds it) is in the terminal status of the function's outcome.
C10_Lifecycle ==
    /\ [](\A t \in TaskIds :
            /\ tasks[t].status = "pending" => pcRun[t] = "wait_sem"
            /\ tasks[t].status \in {"running", "completed", "failed"}
                  => tasks[t].started_at
            /\ tasks[t].status = "completed"
                  => /\ fnOutcome[t] = "returned"
                     /\ tasks[t].results /\ ~tasks[t].error
                     /\ tasks[t].progress = 100
            /\ tasks[t].status = "failed"
                  => /\ fnOutcome[t] = "raised"
                     /\ tasks[t].error /\ ~tasks[t].results
            /\ (pcRun[t] = "finished" /\ tasks[t].status # "absent")
                  => tasks[t].status = IF fnOutcome[t] = "returned"
                                       THEN "completed" ELSE "failed")
    /\ [][\A t \in TaskIds :
             tasks'[t].status # tasks[t].status
             => <<tasks[t].status, tasks'[t].status>> \in LifecycleSteps]_vars

\* One task has completed and another one has failed
C10_Witness ==
    \E t, u \in TaskIds :
        /\ tasks[t].status = "completed" /\ pcRun[t] = "finished"
        /\ tasks[u].status = "failed" /\ pcRun[u] = "finished"


\* C11: update_progress fans out only when its argument is strictly greater
\* than the recorded progress: a call never lowers the recorded progress,
\* and a call that creates a notification task has raised it.
C11_FanoutOnlyOnIncrease ==
    [][\A t \in TaskIds :
         fnCalls'[t] # fnCalls[t]
         => /\ tasks'[t].progress >= tasks[t].progress
            /\ (notifier'[t] # notifier[t]
                   => tasks'[t].progress > tasks[t].progress)]_vars


\* get_task(task_id): self.tasks.get(task_id)
GetTask(t) == tasks[t]

\* C12: a task inserted at time t0 is absent from the task manager at every
\* time later than t0 + TTL (1 h for back-tests, 2 h for optimizations),
\* whatever its status was; nothing the task manager does brings it back or
\* moves its expiry.
C12_TaskTtl ==
    /\ [](\A t \in TaskIds :
            (expires[t] # NoTs /\ timer > expires[t])
            => GetTask(t) = NoTask)
    /\ [][\A t \in TaskIds :
             expires[t] # NoTs => expires'[t] = expires[t]]_vars

\* A task expired while its function was executing, another one after it
\* had completed
C12_Witness ==
    \E t, u \in TaskIds :
        /\ timer > expires[t] /\ expires[t] # NoTs
        /\ pcRun[t] = "executing" /\ GetTask(t) = NoTask
        /\ timer > expires[u] /\ expires[u] # NoTs
        /\ fnOutcome[u] = "returned" /\ pcRun[u] = "finished"
        /\ GetTask(u) = NoTask


\* C13: a failing flush is retried up to 3 times with backoff delays of 1 s,
\* 2 s and 3 s, and only when the retries are exhausted are the bars put
\* back and the flush-failure counter incremented, by exactly one: the step
\* that gives a flush up follows three retries and the delays 1, 2, 3.
C13_RetriesThenRequeue ==
    [][\A k \in Keys :
         ( /\ flushJob[k].st = "write"
           /\ flushJob'[k].st = "idle"
           /\ stats'.flush_failures # stats.flush_failures )
         => /\ stats'.flush_failures = stats.flush_failures + 1
            /\ write_buffer'[k] = flushJob[k].batch \o write_buffer[k]
            /\ flushJob[k].attempt = 3
            /\ DelaysSlept(flushJob[k].attempt) = <<1, 2, 3>>]_vars


\* The bars accepted into a write buffer and not yet handed to the Store
\* with success: those in the buffers and those of the flushes under way
Unpersisted ==
    UNION {IdsOf(write_buffer[k]) \cup IdsOf(flushJob[k].batch) : k \in Keys}

\* C14: stop() first stops the fetch and flusher tasks and then flushes
\* every non-empty buffer; with a working Store, no bar accepted into a write
\* buffer disappears from the call of stop() on unless it has been
\* persisted, and when stop() has returned all buffers are empty and no
\* flush is under way.
C14_ShutdownDrains ==
    /\ [](phase = "stopped"
            => \A k \in Keys : write_buffer[k] = <<>> /\ flushJob[k].st = "idle")
    /\ [][phase' \in {"stopping", "draining", "stopped"}
            => Unpersisted \subseteq (Unpersisted' \cup dbKlines')]_vars


\* C15: for each key, the timestamps of the bars the producer publishes are
\* non-decreasing in publication order, within a tick and across ticks.
C15_PublishedInOrder ==
    \A k \in Keys :
        \A i, j \in 1..Len(bus[k]) : i < j => bus[k][i] <= bus[k][j]

(***************************************************************************)
(* Properties of the running strategy and the message bus                  *)
(***************************************************************************)

\* C16: whenever an exit rule fires for a symbol that is in position, the
\* position is cleared and a CLOSE signal is dispatched for it: published and
\* persisted in live mode, handed to the direct handler in back-test mode.  A
\* position is never cleared without its CLOSE signal being dispatched.
C16_ExitDispatchesClose ==
    [][\A s \in Symbols :
          (rt_positions[s].has_position /\ ~rt_positions'[s].has_position)
             => /\ last'.signal = "CLOSE"
                /\ runtime = "backtest" => last'.handed
                /\ runtime = "live" => last'.persisted /\ last'.published]_vars

\* The base confirmation filters as the numbers decide them: confidence at
\* least 0.5, volume at least half of volume_ma5, atr14 at most 5 % of ma20
PassesBaseFilters(confidence, kline, indicator) ==
    /\ confidence # Missing
    /\ confidence >= 50
    /\ indicator.volume_ma5 # Missing
    /\ indicator.volume_ma5 > 0
    /\ 2 * kline.volume >= indicator.volume_ma5
    /\ indicator.atr14 # Missing
    /\ indicator.ma20 # Missing
    /\ indicator.ma20 > 0
    /\ 100 * indicator.atr14 <= 5 * indicator.ma20

\* C17: a position is opened and an OPEN signal dispatched only for an entry
\* candidate that passes all base confirmation filters (confidence >= 0.5,
\* bar.volume / volume_ma5 >= 0.5, atr14 / ma20 <= 5 %); a candidate that
\* fails one of them leaves the symbol without position and no signal is
\* dispatched.
C17_OpenOnlyWhenConfirmed ==
    [][\A s \in Symbols :
          (\/ ~rt_positions[s].has_position /\ rt_positions'[s].has_position
           \/ last'.signal = "OPEN")
             => PassesBaseFilters(last'.confidence, rt_state'[s].kline,
                                  rt_state'[s].indicator)]_vars

\* C18: no exception raised while the indicator node or the strategy runtime
\* processes a bar or indicator message leaves the per-message handler: it is
\* caught and logged, and the next message is processed.
C18_HandlersCatch ==
    /\ ~last.escaped
    /\ last.node # "escaped"
    /\ (last.raised \/ last.node = "raised") => error_logged

\* A handler has caught and logged an exception, and in a later step the
\* indicator node has published an indicator that the strategy has processed
\* up to the dispatch of a signal
C18_Witness ==
    /\ error_logged
    /\ last.called
    /\ ~last.raised
    /\ last.node = "returned"
    /\ last.signal = "OPEN"
    /\ last.persisted
    /\ last.published

\* C19: in live mode the bar subscription of the strategy runtime matches the
\* subject the producer publishes on: every bar published for a configured
\* symbol, timeframe and market is delivered to the strategy that handles the
\* symbol and the timeframe.
C19_BarsReachStrategy ==
    (runtime = "live" /\ last_pub.topic # <<>>)
        => "strategy" \in last_pub.receivers


(***************************************************************************)
(* Properties of the back-test data source                                 *)
(***************************************************************************)

\* C20: the back-test data source yields a finite stream in which the
\* timestamp of every item is greater than or equal to the timestamp of the
\* item yielded before it, for any number of symbols and any stored bars and
\* indicators in [start_ts, end_ts]: the items yielded are in order, and they
\* are the loaded items, each yielded once.
C20_StreamOrdered ==
    /\ \A i, j \in 1..Len(yielded) : i < j => yielded[i] <= yielded[j]
    /\ pcStream \in {"streaming", "done"}
          => Len(yielded) + Len(all_data) = Len(Merged(Len(StreamSymbols)))
    /\ pcStream = "done" => all_data = <<>>

\* The stream of two symbols has ended after three items or more, and the
\* bar of the first symbol is later than the bar of the second
C20_Witness ==
    /\ pcStream = "done"
    /\ Len(yielded) >= 3
    /\ kline_data["BTCUSDT"] # <<>>
    /\ kline_data["ETHUSDT"] # <<>>
    /\ kline_data["BTCUSDT"][1] > kline_data["ETHUSDT"][1]


CappedAmount(call, params) ==
    LET size == RiskBasedSize(call.price, call.stop_loss, call.balance,
                              params.risk_per_trade)
        cap == (call.balance * params.single_position_max_pct) \div 100
    IN  Min(size, cap)

\* max_exposure_pct of the balance less the amounts of the open positions
RemainingExposure(call, params) ==
    (call.balance * params.max_exposure_pct) \div 100
        - SumUsdt(call.book, {s \in DOMAIN call.book : call.book[s].open})

OpenCount(call) == Cardinality({s \in DOMAIN call.book : call.book[s].open})

\* C22: an OPEN request below the position limit whose capped amount exceeds
\* the remaining exposure is rejected when the remaining exposure is less
\* than half of the amount, and is otherwise admitted with exactly the
\* remaining exposure as its amount.
C22_ExposureReduction ==
    LET capped == CappedAmount(sz_last, sz_params)
        remaining == RemainingExposure(sz_last, sz_params)
    IN  (/\ sz_last.called
         /\ OpenCount(sz_last) < sz_params.max_positions
         /\ capped > remaining)
            => IF 2 * remaining < capped
               THEN ~sz_last.order.ok
               ELSE /\ sz_last.order.ok
                    /\ sz_last.order.usdt_amount = remaining

\* An order was admitted with its amount reduced to the remaining exposure
C22_Witness ==
    /\ sz_last.called
    /\ sz_last.order.ok
    /\ CappedAmount(sz_last, sz_params) > RemainingExposure(sz_last, sz_params)
    /\ sz_last.order.usdt_amount = RemainingExposure(sz_last, sz_params)
    /\ sz_last.order.usdt_amount > 0


\* The websockets of a subscriber list
Listed(list) == {list[i] : i \in 1..Len(list)}

\* C23: a subscriber whose sink raises on a send is removed from the task's
\* subscriber list: after register_websocket whose initial send raised the
\* websocket is not in the list, and when _notify_websockets returns none of
\* the websockets whose send raised is in the list.
C23_FailedSinkRemoved ==
    [][/\ \A ws \in Sinks :
            (/\ handler[ws] = "none"
             /\ handler'[ws] = "polling"
             /\ broken[ws]
             /\ tasks[WatchedTask].status # "absent")
                => ws \notin Listed(websocket_connections'[WatchedTask])
       /\ \A n \in NotifierIds :
            (/\ notifier[WatchedTask][n].st = "sending"
             /\ notifier'[WatchedTask][n].st # "sending")
                => notifier[WatchedTask][n].disconnected
                       \cap Listed(websocket_connections'[WatchedTask]) = {}
      ]_vars


\* C24: cleanup_old_tasks(age) removes exactly the tasks that are completed
\* or failed and whose completion is more than age ago; every other task,
\* pending, running or finished more recently, stays in the map as it was.
C24_CleanupExact ==
    [][cl_last' # cl_last =>
          \A t \in CleanupTaskIds :
              IF /\ cl_tasks[t].status \in {"completed", "failed"}
                 /\ cl_now - cl_tasks[t].completed_at > cl_last'.age
              THEN cl_tasks'[t].status = "absent"
              ELSE cl_tasks'[t] = cl_tasks[t]
      ]_vars

\* A cleanup has removed one task and left in the map a task that finished
\* exactly age before the call
C24_Witness ==
    /\ cl_last.ran
    /\ cl_last.returned = 1
    /\ cl_now = cl_last.now
    /\ \E t \in CleanupTaskIds :
          /\ cl_tasks[t].status \in {"completed", "failed"}
          /\ cl_tasks[t].completed_at + cl_last.age = cl_last.now


\* C25: over one run a ProgressTracker invokes its callback at most
\* max_updates times, however many update() calls are made and however they
\* are spaced in time.
C25_AtMostMaxUpdates ==
    tr_reports.count <= tracker.max_updates

\* C26: once the processed item count has reached total_items, the callback
\* has been given 100, whatever the throttle says, and 100 is the last value
\* it has been given.
C26_FinalHundred ==
    (tracker.made /\ tracker.processed_items >= tracker.total_items)
        => tr_reports.value = 100

\* The 100 was issued by an update() that came less than min_interval after
\* the previous notification
C26_Witness ==
    /\ tracker.made
    /\ tracker.total_items > 1
    /\ tracker.processed_items = tracker.total_items
    /\ tr_reports.value = 100
    /\ tr_reports.throttled
    /\ tr_reports.count > 1


\* C27: once the calculator set of a series has been preheated, processing
\* a further bar of the series issues no Store read: the lookups of the
\* preheat are the only reads the indicator node makes.
C27_NoReadAfterPreheat ==
    [][\A k \in CalcKeys :
          calculators[k].present => store_reads' = store_reads]_vars

\* A preheated set has taken the bar of the preheat and further bars, all
\* with the one read of the preheat
C27_Witness ==
    \E k \in CalcKeys :
        /\ calculators[k].present
        /\ calculators[k].update_count >= 3
        /\ store_reads = 1

\* C28: each calculator set has a single writer: no two bar subscriptions
\* update, initialise or replace the same calculator set.
C28_SingleWriter ==
    \A k \in CalcKeys : Cardinality(calculators[k].writers) <= 1


\* The grid timestamps of the window of the check
GridInWindow ==
    {t \in check.start_time..check.end_time : t % IntervalSeconds = 0}

InRange(t, range) == range[1] <= t /\ t <= range[2]

\* C29: bar gap detection returns disjoint [start, end] ranges in ascending
\* order; every grid timestamp of the window without a stored bar lies in
\* some range, and no range contains a grid timestamp that has a stored bar.
C29_GapsExact ==
    check.pc # "idle" =>
        LET gaps == check.gaps
        IN  /\ \A i \in 1..Len(gaps) : gaps[i][1] <= gaps[i][2]
            /\ \A i \in 1..Len(gaps) : \A j \in 1..Len(gaps) :
                   i < j => gaps[i][2] < gaps[j][1]
            /\ \A t \in GridInWindow \ check.stored :
                   \E i \in 1..Len(gaps) : InRange(t, gaps[i])
            /\ \A i \in 1..Len(gaps) : \A t \in check.stored :
                   t % IntervalSeconds = 0 => ~InRange(t, gaps[i])

\* Two ranges were returned, with a stored bar of the grid between them
C29_Witness ==
    /\ check.pc # "idle"
    /\ Len(check.gaps) = 2
    /\ \E t \in check.stored :
          /\ t % IntervalSeconds = 0
          /\ check.gaps[1][2] < t
          /\ t < check.gaps[2][1]

\* C30: a failure while repairing one bar range or one indicator timestamp
\* is logged and does not stop the repair: every range and every timestamp
\* of the run is attempted.
C30_RepairContinues ==
    /\ check.logged = Cardinality(check.failed)
    /\ check.pc = "indicators" => check.attempted >= Len(check.gaps)
    /\ check.pc = "done" =>
           check.attempted = Len(check.gaps) + Len(check.missing)

\* The run is over; the first range and the first timestamp failed and
\* there were further ranges and timestamps
C30_Witness ==
    /\ check.pc = "done"
    /\ Len(check.gaps) >= 2
    /\ Len(check.missing) >= 2
    /\ check.logged >= 2
    /\ <<"klines", 1>> \in check.failed
    /\ <<"indicators", 1>> \in check.failed


\* The bars get_recent_klines returns for a timestamp
RecentAt(timestamp) ==
    LET recent == GetRecentKlines(MaxInserts * MaxBatch)
    IN  {i \in DOMAIN recent : recent[i].timestamp = timestamp}

\* C31: bulk bar insertion is an idempotent upsert: after any sequence of
\* inserted bars with duplicates by key (symbol, timeframe, timestamp,
\* market), recent_bars returns exactly one bar per key, with the fields of
\* the most recently inserted duplicate.
C31_UpsertIdempotent ==
    \A key \in BarKeys :
        db_latest[key].inserted =>
            LET recent == GetRecentKlines(MaxInserts * MaxBatch)
            IN  /\ Cardinality(RecentAt(key[1])) = 1
                /\ \A i \in RecentAt(key[1]) :
                       recent[i].close = db_latest[key].close


\* The sum of the n prices that end at position i
RECURSIVE SumOfLast(_, _, _)
SumOfLast(prices, i, n) ==
    IF n = 0 THEN 0 ELSE prices[i] + SumOfLast(prices, i - 1, n - 1)

\* The fraction num / den is the number tenths / 10
IsTenths(result, tenths) ==
    result.known /\ result.num * 10 = tenths * result.den

\* C32: SMA with period n returns unknown for each of the first n-1 inputs
\* and, from the n-th input on, the arithmetic mean of the last n inputs;
\* SMA(5) over [100,102,101,103,105,104,106] yields
\* [null,null,null,null,102.2,103.0,103.8].
C32_SmaMean ==
    /\ \A i \in DOMAIN ma_results :
           IF i < ma.period THEN ma_results[i] = Unknown
           ELSE /\ ma_results[i].known
                /\ ma_results[i].num * ma.period =
                       SumOfLast(ma_prices, i, ma.period) * ma_results[i].den
    /\ (ma.period = 5 /\ ma_prices = TestPrices) =>
           /\ \A i \in 1..4 : ma_results[i] = Unknown
           /\ IsTenths(ma_results[5], 1022)
           /\ IsTenths(ma_results[6], 1030)
           /\ IsTenths(ma_results[7], 1038)

\* SMA(5) has been fed the seven closes of the example
C32_Witness ==
    /\ ma.period = 5
    /\ ma_prices = TestPrices
    /\ Len(ma_results) = 7


\* The published bars the producer still holds: those a fetch task is about
\* to put into the buffer, those in the buffers and those of the flushes
\* under way
HeldBars ==
    Unpersisted \cup UNION {IdsOf(fetchLocal[k].new_klines) : k \in Keys}

\* C33: no published bar is lost: every bar the producer has published is, at
\* every later moment, persisted in the Store, held in its key's write
\* buffer or part of a flush in progress, also when a Store write fails and
\* when a flush is interrupted by shutdown.
C33_NoPublishedBarLost ==
    [][HeldBars \subseteq (HeldBars' \cup dbKlines')]_vars


\* C34: in back-test, after each signal has been handled the strategy's
\* per-symbol position state agrees with the position manager: a symbol is
\* in position in the strategy exactly when the position manager holds an
\* open position for it, whatever the admission decision for the OPEN was.
C34_PositionStateAgrees ==
    \A s \in SizingSymbols : bk_flags[s] <=> bk_book[s].open


RECURSIVE SumSeq(_)
SumSeq(seq) == IF seq = <<>> THEN 0 ELSE Head(seq) + SumSeq(Tail(seq))

\* C35: at every moment the position manager satisfies balance + sum of the
\* USDT amounts of the open positions = initial_balance + sum of the
\* realized P&L of the closed positions; opening moves the amount out of the
\* balance, closing returns the entry amount plus the P&L.
C35_BalanceIdentity ==
    bk_initial # NoBalance =>
        bk_balance + SumUsdt(bk_book, {s \in SizingSymbols : bk_book[s].open})
            = bk_initial + SumSeq(bk_trades)

\* A position was closed with a loss or a profit while another is open
C35_Witness ==
    /\ bk_initial > 0
    /\ \E i \in DOMAIN bk_trades : bk_trades[i] # 0
    /\ \E s \in SizingSymbols :
          /\ bk_book[s].open
          /\ bk_book[s].side = "SHORT"
          /\ bk_book[s].usdt_amount > 0


\* The timestamp of the latest bar the Store holds for a key
LatestPersisted(k) == CHOOSE t \in ci_store[k] : \A u \in ci_store[k] : u <= t

\* C36: when cursor initialisation finishes, each key's cursor equals the
\* timestamp of the latest bar persisted in the Store for that key, and
\* equals the current time only if the Store holds no bar for that key.
C36_CursorIsLastPersisted ==
    ci_left = <<>> =>
        \A k \in Keys :
            ci_store[k] # {} => ci_cursor[k] = LatestPersisted(k)


C38_AppliedStrictlyIncreasing ==
    \A i \in DOMAIN ap_set.applied : \A j \in DOMAIN ap_set.applied :
        i < j => ap_set.applied[i] < ap_set.applied[j]


\* C39: while a position is open, the stop-loss and take-profit levels the
\* default exit checks use are the ones computed at entry, from the entry
\* price and the entry bar's ATR (or the fixed percentages if the ATR was
\* unknown), and do not change from bar to bar.
C39_ExitLevelsFixed ==
    [][\A s \in Symbols :
          LET pos == positions[s]
              at_entry == state[s].indicator.atr14
              used == state'[s].indicator.atr14
          IN  (/\ pos.has_position
               /\ state[s].indicator.ts = pos.entry_time
               /\ evaluated'.ran
               /\ state'[s].indicator # state[s].indicator)
                 => /\ CalculateStopLoss(pos.entry_price, pos.side, used)
                         = CalculateStopLoss(pos.entry_price, pos.side,
                                             at_entry)
                    /\ CalculateTakeProfit(pos.entry_price, pos.side, used)
                         = CalculateTakeProfit(pos.entry_price, pos.side,
                                               at_entry)]_vars


SeqRange(seq) == {seq[i] : i \in DOMAIN seq}

\* C40: the live data source's stream makes progress: once started for a
\* list of symbols it becomes subscribed to the bar and indicator subjects
\* of every requested symbol, and every message published on those subjects
\* afterwards is eventually yielded to the consumer.
C40_LiveStreamProgress ==
    /\ (lv_pc = "listening") ~>
           (lv_pc = "raised" \/ RequestedTopics(lv_symbols) \subseteq lv_subscribed)
    /\ \A m \in LiveMessages :
           (lv_pc = "listening" /\ m \in SeqRange(lv_sent)
                /\ m.topic \in RequestedTopics(lv_symbols))
             ~> (lv_pc = "raised" \/ <<m.topic, m.data>> \in SeqRange(lv_yielded))

=============================================================================
